---- MODULE Spec2Model ----
(***************************************************************************)
(* A model of status-reportr: the weekly windowing of done items           *)
(* (schedule.go), the item queries and matchers (structs.go), the section  *)
(* classification (Section.Extract of config.go) and the report pipeline   *)
(* of wrapped() and render() (main.go).                                    *)
(*                                                                         *)
(* Time.  An instant is an integer number of ticks since Go's zero time    *)
(* time.Time{} = 0001-01-01 00:00:00 UTC, TicksPerDay ticks to a day.  A   *)
(* clock value (the argument `now`) is an instant together with the UTC    *)
(* offset of its location, in ticks.                                       *)
(*                                                                         *)
(* Strings.  A string is a sequence of one-character strings, so that      *)
(* trimming, lower-casing and glob matching are computed character by      *)
(* character.                                                              *)
(***************************************************************************)
EXTENDS Integers, Sequences, FiniteSets, TLC

VARIABLES
    input,    \* the item list as fetched (never changed: the reference order)
    now,      \* the clock value handed to splitByWeeks: [utc, off]
    cfg,      \* the configuration: [Sections, Unclassified]
    pc,       \* position in wrapped(): init, fetching, fetched, start, filtered, loop,
              \* split_done, rendered, archiving, done; failed after an error,
              \* queried after a direct time query, panicked after a panic
    arg,      \* the slice handed to splitByWeeks (the caller's backing array)
    list,     \* splitByWeeks: the candidate pool
    start,    \* splitByWeeks: start of the window being built
    end,      \* splitByWeeks: end of the window being built
    weeks,    \* splitByWeeks: the windows emitted so far
    removed,  \* history: the items that left the pool in the last iteration
    reports,  \* render(): one classification per window rendered so far
    query,    \* a time query made on the fetched list directly, and its result
    failure,  \* the panic that ended the run, if any, and what had been classified
    cli,      \* the command line: [DryRun]
    sent,     \* archive(): the archiveItem requests made so far, [ID, ok] each
    err,      \* the error wrapped() returned: "" (none), "fetch", "write",
              \* "project" or "archive"
    server,   \* fetchIssues: the responses the server gives, by request number
    fetch     \* fetchIssues: its locals, the requests it made and what it returned

vars == <<input, now, cfg, pc, arg, list, start, end, weeks, removed, reports, query,
          failure,
         cli, sent, err, server, fetch>>

(***************************************************************************)
(* Bounds of the model.                                                    *)
(***************************************************************************)
TicksPerDay == 2      \* resolution of the clock: a tick is 1/TicksPerDay day
MaxItems == 3         \* longest item list of the windowing inputs
MaxSlots == 4         \* completion instants: EpochTick + k * SlotTicks, k in 0..MaxSlots
MaxClassItems == 2    \* longest item list of the classification inputs
MaxSections == 2      \* most sections of a configuration
MaxLabelItems == 3    \* longest item list of the label counting inputs
MaxArchiveItems == 3  \* longest item list of the archiving inputs
MaxPages == 3         \* most answers a server has

DaysPerWeek == 7

(***************************************************************************)
(* Calendar.                                                               *)
(***************************************************************************)
IsLeap(y) == (y % 4 = 0 /\ y % 100 # 0) \/ y % 400 = 0

DaysBeforeMonth(y, m) ==
    <<0, 31, 59, 90, 120, 151, 181, 212, 243, 273, 304, 334>>[m]
        + (IF m > 2 /\ IsLeap(y) THEN 1 ELSE 0)

\* Days from 0001-01-01 to the civil date y-m-d (proleptic Gregorian).
DayOf(y, m, d) ==
    365 * (y - 1) + ((y - 1) \div 4) - ((y - 1) \div 100) + ((y - 1) \div 400)
        + DaysBeforeMonth(y, m) + (d - 1)

\* time.Date(y, m, d, 0, 0, 0, 0, time.UTC) for a day number.
MidnightUTC(day) == day * TicksPerDay

ZeroTime == MidnightUTC(DayOf(1, 1, 1))

\* 0001-01-01 was a Monday; Sunday is 0 as in time.Weekday.
WeekdayOfDay(day) == (day + 1) % DaysPerWeek

\* The calendar day of a clock value in its own location.
LocalDay(t) == (t.utc + t.off) \div TicksPerDay

Weekday(t) == WeekdayOfDay(LocalDay(t))

(***************************************************************************)
(* Strings (package strings) and glob matching (github.com/ryanuber/       *)
(* go-glob v1.0.0, the matcher structs.go imports).                        *)
(***************************************************************************)
Str_done == <<"d", "o", "n", "e">>
Str_star == <<"*">>

\* strings.ToLower on the letters the model's strings use.
LowerChar(c) ==
    CASE c = "A" -> "a"
      [] c = "B" -> "b"
      [] c = "D" -> "d"
      [] c = "E" -> "e"
      [] c = "N" -> "n"
      [] c = "O" -> "o"
      [] c = "S" -> "s"
      [] c = "T" -> "t"
      [] c = "U" -> "u"
      [] OTHER -> c

ToLower(s) == [i \in 1..Len(s) |-> LowerChar(s[i])]

RECURSIVE TrimLeft(_)
TrimLeft(s) ==
    IF s # <<>> /\ Head(s) = " " THEN TrimLeft(Tail(s)) ELSE s

RECURSIVE TrimRight(_)
TrimRight(s) ==
    IF s # <<>> /\ s[Len(s)] = " " THEN TrimRight(SubSeq(s, 1, Len(s) - 1)) ELSE s

TrimSpace(s) == TrimRight(TrimLeft(s))

HasPrefixStr(s, p) == Len(p) <= Len(s) /\ SubSeq(s, 1, Len(p)) = p

HasSuffixStr(s, p) == Len(p) <= Len(s) /\ SubSeq(s, Len(s) - Len(p) + 1, Len(s)) = p

\* strings.Index: the 0-based offset of the first occurrence of sub in s, or -1.
IndexStr(s, sub) ==
    LET hits == {i \in 0..(Len(s) - Len(sub)) : SubSeq(s, i + 1, i + Len(sub)) = sub}
    IN IF hits = {} THEN -1 ELSE CHOOSE i \in hits : \A j \in hits : i <= j

\* strings.Split(s, "*").
RECURSIVE SplitGlob(_)
SplitGlob(s) ==
    LET idx == IndexStr(s, Str_star)
    IN IF idx < 0 THEN <<s>>
       ELSE <<SubSeq(s, 1, idx)>> \o SplitGlob(SubSeq(s, idx + 2, Len(s)))

\* The loop of glob.Glob over the leading parts, from part i (0-based).
RECURSIVE GlobLoop(_, _, _, _, _)
GlobLoop(parts, i, subj, leadingGlob, trailingGlob) ==
    LET last == Len(parts) - 1
        part == parts[i + 1]
        idx  == IndexStr(subj, part)
    IN IF i >= last
       THEN trailingGlob \/ HasSuffixStr(subj, parts[last + 1])
       ELSE IF i = 0 /\ ~leadingGlob /\ idx # 0 THEN FALSE
       ELSE IF i # 0 /\ idx < 0 THEN FALSE
       ELSE GlobLoop(parts, i + 1, SubSeq(subj, idx + Len(part) + 1, Len(subj)),
                     leadingGlob, trailingGlob)

Glob(pattern, subj) ==
    IF pattern = <<>> THEN subj = pattern
    ELSE IF pattern = Str_star THEN TRUE
    ELSE LET parts == SplitGlob(pattern)
         IN IF Len(parts) = 1 THEN subj = pattern
            ELSE GlobLoop(parts, 0, subj,
                          HasPrefixStr(pattern, Str_star), HasSuffixStr(pattern, Str_star))

(***************************************************************************)
(* Items (structs.go).                                                     *)
(***************************************************************************)
FIELD_EMPTY == 0
FIELD_DATE == 1
FIELD_TEXT == 2
FIELD_NUMBER == 3
FIELD_ITERATION == 4

\* A variant of IsDone that compares the status text as it is.
IsDone_CaseSensitive(it) ==
    IF "Status" \in DOMAIN it.Fields
    THEN it.Fields["Status"].Type = FIELD_TEXT
         /\ Str_done = it.Fields["Status"].Text
    ELSE FALSE

\* Item.IsDone
IsDone(it) ==
    IF "Status" \in DOMAIN it.Fields
    THEN it.Fields["Status"].Type = FIELD_TEXT
         /\ Str_done = ToLower(it.Fields["Status"].Text)
    ELSE FALSE

\* Item.Done: the completion time, the zero time for an item that is not done.
Done(it) ==
    IF "Status" \in DOMAIN it.Fields
       /\ it.Fields["Status"].Type = FIELD_TEXT
       /\ Str_done = ToLower(it.Fields["Status"].Text)
    THEN it.DoneAt
    ELSE ZeroTime

\* A variant of Title that returns the text of the Title field whatever its type.
Title_AnyType(it) ==
    IF "Title" \in DOMAIN it.Fields THEN it.Fields["Title"].Text ELSE <<>>

\* Item.Title
Title(it) ==
    IF "Title" \in DOMAIN it.Fields /\ it.Fields["Title"].Type = FIELD_TEXT
    THEN it.Fields["Title"].Text
    ELSE <<>>

\* A variant of HasLabel that compares the label as it is, untrimmed.
HasLabel_LabelUntrimmed(it, l) ==
    \E i \in 1..Len(it.Labels) : Glob(TrimSpace(l), it.Labels[i])

\* A variant of HasLabel in which the pattern "*" matches every item, also one
\* that carries no label.
HasLabel_StarMatchesAll(it, l) ==
    \/ TrimSpace(l) = Str_star
    \/ \E i \in 1..Len(it.Labels) : Glob(TrimSpace(l), TrimSpace(it.Labels[i]))

\* Item.HasLabel
HasLabel(it, l) ==
    \E i \in 1..Len(it.Labels) : Glob(TrimSpace(l), TrimSpace(it.Labels[i]))

\* Item.HasPrefix
HasPrefix(it, prefix) ==
    Glob(TrimSpace(prefix) \o Str_star, TrimSpace(Title(it)))

\* A variant of IsBranch that does not ask for the item to have a branch.
IsBranch_BranchNotRequired(it, org, repo, branch) ==
    LET slug == TrimSpace(org) \o <<"/">> \o TrimSpace(repo)
    IN /\ Len(it.Repo.Slug) > 0
       /\ Glob(slug, TrimSpace(it.Repo.Slug))
       /\ Glob(TrimSpace(branch), TrimSpace(it.Repo.Branch))

\* Item.IsBranch
IsBranch(it, org, repo, branch) ==
    LET slug == TrimSpace(org) \o <<"/">> \o TrimSpace(repo)
    IN /\ Len(it.Repo.Slug) > 0
       /\ Len(it.Repo.Branch) > 0
       /\ Glob(slug, TrimSpace(it.Repo.Slug))
       /\ Glob(TrimSpace(branch), TrimSpace(it.Repo.Branch))

\* time.Time.Before, After and Equal compare instants.
Before(a, b) == a < b
After(a, b) == a > b
Equal(a, b) == a = b

\* sort.SliceStable(list, less) with less(i, j) = list[i].DoneAt.Before(list[j].DoneAt)
\* (schedule.go): the stable order, computed by insertion.  x goes before the
\* first element that is strictly later, so equal keys keep their order.
RECURSIVE InsertByDoneAt(_, _)
InsertByDoneAt(sorted, x) ==
    IF sorted = <<>> THEN <<x>>
    ELSE IF Before(x.DoneAt, Head(sorted).DoneAt)
         THEN <<x>> \o sorted
         ELSE <<Head(sorted)>> \o InsertByDoneAt(Tail(sorted), x)

\* A variant of the sort that is not stable: x goes before the elements that
\* are not earlier, so equal keys end up reversed.
RECURSIVE InsertUnstable(_, _)
InsertUnstable(sorted, x) ==
    IF sorted = <<>> THEN <<x>>
    ELSE IF ~Before(Head(sorted).DoneAt, x.DoneAt)
         THEN <<x>> \o sorted
         ELSE <<Head(sorted)>> \o InsertUnstable(Tail(sorted), x)

RECURSIVE SortByDoneAt_Unstable(_)
SortByDoneAt_Unstable(s) ==
    IF s = <<>> THEN <<>>
    ELSE InsertUnstable(SortByDoneAt_Unstable(SubSeq(s, 1, Len(s) - 1)), s[Len(s)])

RECURSIVE SortByDoneAt(_)
SortByDoneAt(s) ==
    IF s = <<>> THEN <<>>
    ELSE InsertByDoneAt(SortByDoneAt(SubSeq(s, 1, Len(s) - 1)), s[Len(s)])

\* sort.SliceStable(done, less) with less(i, j) = done[i].Done().Before(done[j].Done())
\* (Items.GetDone).
RECURSIVE InsertByDone(_, _)
InsertByDone(sorted, x) ==
    IF sorted = <<>> THEN <<x>>
    ELSE IF Before(Done(x), Done(Head(sorted)))
         THEN <<x>> \o sorted
         ELSE <<Head(sorted)>> \o InsertByDone(Tail(sorted), x)

RECURSIVE SortByDone(_)
SortByDone(s) ==
    IF s = <<>> THEN <<>>
    ELSE InsertByDone(SortByDone(SubSeq(s, 1, Len(s) - 1)), s[Len(s)])

\* Items.GetDone
GetDone(l) == SortByDone(SelectSeq(l, IsDone))

\* A variant of GetOlder without the check for the zero time.
GetOlder_ZeroTimeKept(l, when) ==
    LET keep(item) == Before(Done(item), when) \/ Equal(Done(item), when)
    IN SelectSeq(l, keep)

\* A variant of GetOlder that keeps only the items strictly older than the time.
GetOlder_OlderOnly(l, when) ==
    LET keep(item) ==
            /\ ~Equal(Done(item), ZeroTime)
            /\ Before(Done(item), when)
    IN SelectSeq(l, keep)

\* Items.GetOlder
GetOlder(l, when) ==
    LET keep(item) ==
            /\ ~Equal(Done(item), ZeroTime)
            /\ (Before(Done(item), when) \/ Equal(Done(item), when))
    IN SelectSeq(l, keep)

\* Variants of GetInRange with one bound wrong.
GetInRange_NoLowerBound(l, from, to) ==
    LET e == IF After(from, to) THEN from ELSE to
        keep(item) == Before(Done(item), e)
    IN SelectSeq(l, keep)

GetInRange_ExclusiveStart(l, from, to) ==
    LET s == IF After(from, to) THEN to ELSE from
        e == IF After(from, to) THEN from ELSE to
        keep(item) == Before(Done(item), e) /\ After(Done(item), s)
    IN SelectSeq(l, keep)

GetInRange_InclusiveEnd(l, from, to) ==
    LET s == IF After(from, to) THEN to ELSE from
        e == IF After(from, to) THEN from ELSE to
        keep(item) ==
            \/ (~After(Done(item), e) /\ After(Done(item), s))
            \/ Equal(Done(item), s)
    IN SelectSeq(l, keep)

\* Items.GetInRange
GetInRange(l, from, to) ==
    LET s == IF After(from, to) THEN to ELSE from
        e == IF After(from, to) THEN from ELSE to
        keep(item) ==
            \/ (Before(Done(item), e) /\ After(Done(item), s))
            \/ Equal(Done(item), s)
    IN SelectSeq(l, keep)

(***************************************************************************)
(* Windowing (schedule.go).                                                *)
(***************************************************************************)
\* A variant of getClosestSunday that goes back a whole week on a Sunday.
getClosestSunday_SkipSunday(t) ==
    LET day == IF Weekday(t) = 0 THEN DaysPerWeek ELSE Weekday(t)
    IN MidnightUTC(LocalDay(t) - day)

\* getClosestSunday: the weekday and the calendar date are those of now's own
\* location; the result is midnight UTC of that date.
getClosestSunday(t) ==
    LET day == Weekday(t)
        tmp == LocalDay(t) - day
    IN MidnightUTC(tmp)

\* A variant of getPreviousSunday that steps back six days.
getPreviousSunday_SixDays(when) == when - (DaysPerWeek - 1) * TicksPerDay

\* getPreviousSunday
getPreviousSunday(when) == when - DaysPerWeek * TicksPerDay

\* A variant of the loop condition that stops one item early.
LoopCond_StopsEarly(l) == Len(l) > 1

\* The loop condition of splitByWeeks: len(list) > 0.
LoopCond(l) == Len(l) > 0

\* main.go:140, items.GetDone(): wrapped() filters and sorts the fetched list
\* and hands the result to splitByWeeks.
GetDoneStep ==
    /\ pc = "start"
    /\ arg' = GetDone(input)
    /\ pc' = "filtered"
    /\ UNCHANGED <<input, now, cfg, list, start, end, weeks, removed, reports, query, failure>>
    /\ UNCHANGED <<cli, sent, err, server, fetch>>

\* splitByWeeks, lines 18-28, as wrapped() calls it (main.go:140): the list
\* handed over is the result of GetDone; the first bounds, the sort of that
\* slice in place, and the candidate pool.
SplitBegin ==
    /\ pc = "filtered"
    /\ LET e      == getClosestSunday(now)
           sorted == SortByDoneAt(arg)
       IN /\ end' = e
          /\ start' = getPreviousSunday(e)
          /\ arg' = sorted
          /\ list' = GetOlder(sorted, e)
    /\ weeks' = <<>>
    /\ removed' = <<>>
    /\ pc' = "loop"
    /\ UNCHANGED <<input, now, cfg, reports, query, failure>>
    /\ UNCHANGED <<cli, sent, err, server, fetch>>

\* splitByWeeks, lines 18-28, applied to a list as it is (the function on its
\* own, any order of the items): arg is the slice of the caller after the
\* sort in place.
SplitCall ==
    /\ pc = "start"
    /\ LET e      == getClosestSunday(now)
           sorted == SortByDoneAt(input)
       IN /\ end' = e
          /\ start' = getPreviousSunday(e)
          /\ arg' = sorted
          /\ list' = GetOlder(sorted, e)
    /\ weeks' = <<>>
    /\ removed' = <<>>
    /\ pc' = "loop"
    /\ UNCHANGED <<input, now, cfg, reports, query, failure>>
    /\ UNCHANGED <<cli, sent, err, server, fetch>>

\* splitByWeeks, lines 29-40: one iteration of the loop.
SplitLoop ==
    /\ pc = "loop"
    /\ LoopCond(list)
    /\ LET issues == GetInRange(list, start, end)
           rest   == GetOlder(list, start)
       IN /\ list' = rest
          /\ weeks' = Append(weeks, [Items |-> issues, Start |-> start, End |-> end])
          /\ removed' = SelectSeq(list, LAMBDA it : \A i \in 1..Len(rest) : rest[i].ID # it.ID)
    /\ end' = start
    /\ start' = getPreviousSunday(start)
    /\ UNCHANGED <<input, now, cfg, pc, arg, reports, query, failure>>
    /\ UNCHANGED <<cli, sent, err, server, fetch>>

\* splitByWeeks, line 42: the loop is over and the windows are returned.
SplitReturn ==
    /\ pc = "loop"
    /\ ~LoopCond(list)
    /\ pc' = "split_done"
    /\ UNCHANGED <<input, now, cfg, arg, list, start, end, weeks, removed, reports, query,
                   failure>>
    /\ UNCHANGED <<cli, sent, err, server, fetch>>

(***************************************************************************)
(* Classification (structs.go, config.go).                                 *)
(***************************************************************************)
\* Items.ExtractByLabels
ExtractByLabels(l, labels) ==
    LET match(item) == \E i \in 1..Len(labels) : HasLabel(item, labels[i])
        nomatch(item) == ~match(item)
    IN [matching |-> SelectSeq(l, match), remaining |-> SelectSeq(l, nomatch)]

\* Items.ExtractByPrefixes
ExtractByPrefixes(l, prefixes) ==
    LET match(item) == \E i \in 1..Len(prefixes) : HasPrefix(item, prefixes[i])
        nomatch(item) == ~match(item)
    IN [matching |-> SelectSeq(l, match), remaining |-> SelectSeq(l, nomatch)]

\* A variant of ExtractByBranch that leaves the matched items in the pool.
ExtractByBranch_KeepsAll(l, org, repo, branch) ==
    LET match(item) == IsBranch(item, org, repo, branch)
    IN [matching |-> SelectSeq(l, match), remaining |-> l]

\* Items.ExtractByBranch
ExtractByBranch(l, org, repo, branch) ==
    LET match(item) == IsBranch(item, org, repo, branch)
        nomatch(item) == ~match(item)
    IN [matching |-> SelectSeq(l, match), remaining |-> SelectSeq(l, nomatch)]

\* Section.Extract, the loop over s.Match.Branches from rule i on.
RECURSIVE ExtractBranches(_, _, _, _)
ExtractBranches(branches, i, mine, left) ==
    IF i > Len(branches) THEN [mine |-> mine, left |-> left]
    ELSE LET b == branches[i]
             r == ExtractByBranch(left, b.Org, b.Repo, b.Branch)
         IN ExtractBranches(branches, i + 1, mine \o r.matching, r.remaining)

\* A variant of Extract that runs the prefix family on the whole list instead
\* of on what the label family left.
Extract_PrefixOnWholeList(s, l) ==
    LET byLabel  == ExtractByLabels(l, s.Match.Labels)
        byPrefix == ExtractByPrefixes(l, s.Match.Prefixes)
    IN ExtractBranches(s.Match.Branches, 1,
                       byLabel.matching \o byPrefix.matching, byPrefix.remaining)

\* Section.Extract
Extract(s, l) ==
    LET byLabel  == ExtractByLabels(l, s.Match.Labels)
        byPrefix == ExtractByPrefixes(byLabel.remaining, s.Match.Prefixes)
    IN ExtractBranches(s.Match.Branches, 1,
                       byLabel.matching \o byPrefix.matching, byPrefix.remaining)

\* The sections in ascending order of their RenderOrder (by insertion).
RECURSIVE InsertByRenderOrder(_, _)
InsertByRenderOrder(sorted, x) ==
    IF sorted = <<>> THEN <<x>>
    ELSE IF x.RenderOrder < Head(sorted).RenderOrder
         THEN <<x>> \o sorted
         ELSE <<Head(sorted)>> \o InsertByRenderOrder(Tail(sorted), x)

RECURSIVE SortByRenderOrder(_)
SortByRenderOrder(s) ==
    IF s = <<>> THEN <<>>
    ELSE InsertByRenderOrder(SortByRenderOrder(SubSeq(s, 1, Len(s) - 1)), s[Len(s)])

RECURSIVE renderSorted(_, _, _)
renderSorted(sorted, i, left) ==
    IF i > Len(sorted) THEN <<>>
    ELSE LET r == Extract(sorted[i], left)
         IN <<[Pool |-> left, Mine |-> r.mine, Left |-> r.left]>>
                \o renderSorted(sorted, i + 1, r.left)

\* A variant of the section loop that feeds the items to the sections in the
\* order of their RenderOrder; the steps are reported per listed section.
renderSections_ByRenderOrder(sections, i, left) ==
    LET sorted == SortByRenderOrder(sections)
        steps  == renderSorted(sorted, 1, left)
        pos(k) == CHOOSE p \in 1..Len(sorted) : sorted[p] = sections[k]
    IN [k \in 1..(Len(sections) - i + 1) |-> steps[pos(k + i - 1)]]

\* rv[label]++ on a Go map: a missing key counts from zero.
Increment(rv, label) ==
    [x \in DOMAIN rv \cup {label} |->
        IF x = label THEN (IF label \in DOMAIN rv THEN rv[label] + 1 ELSE 1) ELSE rv[x]]

\* The inner loop of GetUniqLabels: the labels of one item from label j on.
RECURSIVE CountItemLabels(_, _, _)
CountItemLabels(rv, labels, j) ==
    IF j > Len(labels) THEN rv
    ELSE CountItemLabels(Increment(rv, labels[j]), labels, j + 1)

\* The outer loop of GetUniqLabels: the items from item i on.
RECURSIVE CountLabelsFrom(_, _, _)
CountLabelsFrom(rv, l, i) ==
    IF i > Len(l) THEN rv
    ELSE CountLabelsFrom(CountItemLabels(rv, l[i].Labels, 1), l, i + 1)

\* A variant of GetUniqLabels that counts the labels trimmed of whitespace.
GetUniqLabels_TrimmedKeys(l) ==
    CountLabelsFrom(<<>>, [i \in 1..Len(l) |->
        [l[i] EXCEPT !.Labels = [j \in 1..Len(l[i].Labels) |-> TrimSpace(l[i].Labels[j])]]], 1)

\* Items.GetUniqLabels: a map from label to the number of times it was met.
GetUniqLabels(l) == CountLabelsFrom(<<>>, l, 1)

\* render(), lines 191-197: the sections in configuration order from section i
\* on, each fed the items the previous ones left.  A step records the pool a
\* section was given, the items it took and the items it left.
RECURSIVE renderSections(_, _, _)
renderSections(sections, i, left) ==
    IF i > Len(sections) THEN <<>>
    ELSE LET r == Extract(sections[i], left)
         IN <<[Pool |-> left, Mine |-> r.mine, Left |-> r.left]>>
                \o renderSections(sections, i + 1, r.left)

\* sections[key] = text: an assignment to an entry of a Go map.
Put(m, key, text) == [k \in DOMAIN m \cup {key} |-> IF k = key THEN text ELSE m[k]]

\* No entry.
EmptyMap == [k \in {} |-> <<>>]

\* Section.Render (config.go): the text of a section is its heading followed
\* by one line per item of the list, or nothing for an empty list of a
\* section to omit if empty.
Render(s, l) ==
    IF s.OmitIfEmpty /\ Len(l) = 0
    THEN [Heading |-> "", Items |-> <<>>, Labels |-> <<>>]
    ELSE [Heading |-> "section", Items |-> l, Labels |-> <<>>]

\* render(), lines 193-197: the texts of the sections from section i on, put
\* in the map under their RenderOrder.
RECURSIVE sectionTexts(_, _, _, _)
sectionTexts(sections, steps, i, m) ==
    IF i > Len(sections) THEN m
    ELSE sectionTexts(sections, steps, i + 1,
                      Put(m, sections[i].RenderOrder, Render(sections[i], steps[i].Mine)))

\* render(), lines 241-249: the texts of the map in ascending order of key.
RECURSIVE inKeyOrder(_, _)
inKeyOrder(m, keys) ==
    IF keys = {} THEN <<>>
    ELSE LET key == CHOOSE k \in keys : \A o \in keys : k <= o
         IN <<m[key]>> \o inKeyOrder(m, keys \ {key})

\* render(), lines 199-249, given what the sections took (steps) and left:
\* the items no section took go to the unclassified section.  With the label
\* section enabled, the labels of the window's items are counted.  Text is
\* what the report holds: the texts left in the sections map, in ascending
\* order of key.
renderTexts(c, week, steps, left) ==
    LET labels == IF c.LabelSection.Enabled THEN GetUniqLabels(week.Items) ELSE <<>>
        m1     == sectionTexts(c.Sections, steps, 1, EmptyMap)
        m2     == Put(m1, c.Unclassified.RenderOrder,
                      Render([OmitIfEmpty |-> c.Unclassified.OmitIfEmpty], left))
        m3     == IF c.LabelSection.Enabled
                  THEN Put(m2, c.LabelSection.RenderOrder,
                           [Heading |-> "labels", Items |-> <<>>, Labels |-> labels])
                  ELSE m2
        m4     == IF c.Summary.Enabled
                  THEN Put(m3, c.Summary.RenderOrder,
                           [Heading |-> "summary", Items |-> <<>>, Labels |-> <<>>])
                  ELSE m3
    IN [Steps |-> steps, Unclassified |-> left, Labels |-> labels,
        Text |-> inKeyOrder(m4, DOMAIN m4)]

\* render(): the classification of one window and its text.
render(c, week) ==
    LET steps == renderSections(c.Sections, 1, week.Items)
        left  == IF steps = <<>> THEN week.Items ELSE steps[Len(steps)].Left
    IN renderTexts(c, week, steps, left)

\* wrapped(), lines 144-154: the report of the next window.
RenderWeek ==
    /\ pc = "split_done"
    /\ Len(reports) < Len(weeks)
    /\ reports' = Append(reports, render(cfg, weeks[Len(reports) + 1]))
    /\ UNCHANGED <<input, now, cfg, pc, arg, list, start, end, weeks, removed, query, failure>>
    /\ UNCHANGED <<cli, sent, err, server, fetch>>

\* wrapped(): every window has been rendered.
RenderDone ==
    /\ pc = "split_done"
    /\ Len(reports) = Len(weeks)
    /\ pc' = "rendered"
    /\ UNCHANGED <<input, now, cfg, arg, list, start, end, weeks, removed, reports, query,
                   failure>>
    /\ UNCHANGED <<cli, sent, err, server, fetch>>

(***************************************************************************)
(* Classification with branch patterns that are regular expressions        *)
(* (Section.ExtractAndRender of config.go, which compiles the pattern of   *)
(* each branch rule when it applies the rule, with the matchers of that    *)
(* build).                                                                 *)
(***************************************************************************)
NoFailure == [panicked |-> FALSE, section |-> 0, classified |-> <<>>]

\* The depth of parentheses after each character of the pattern.
RECURSIVE ParenDepth(_, _)
ParenDepth(p, n) ==
    IF n = 0 THEN 0
    ELSE ParenDepth(p, n - 1)
            + (IF p[n] = "(" THEN 1 ELSE IF p[n] = ")" THEN -1 ELSE 0)

\* regexp.Compile succeeds.  The patterns of the model are made of letters,
\* spaces and parentheses: such a pattern is a regular expression iff its
\* parentheses are balanced.
RegexpCompiles(p) ==
    /\ \A n \in 1..Len(p) : ParenDepth(p, n) >= 0
    /\ ParenDepth(p, Len(p)) = 0

\* The pattern without its parentheses: a group of literals matches as the
\* literals do.
Literals(p) == SelectSeq(p, LAMBDA c : c \notin {"(", ")"})

\* Regexp.MatchString for a compiled pattern of letters, spaces and groups:
\* the subject contains the literals.
MatchString(p, subj) == IndexStr(subj, Literals(p)) >= 0

\* Item.HasLabel of that build: case is ignored and "*" matches everything.
ReHasLabel(it, l) ==
    LET low == ToLower(TrimSpace(l))
    IN \/ low = Str_star
       \/ \E i \in 1..Len(it.Labels) : ToLower(TrimSpace(it.Labels[i])) = low

\* Item.HasPrefix of that build.
ReHasPrefix(it, prefix) == HasPrefixStr(TrimSpace(Title(it)), TrimSpace(prefix))

\* Item.IsBranch of that build: the slug is compared as it is, the branch is
\* matched by the compiled pattern.
ReIsBranch(it, org, repo, re) ==
    IF it.Repo.Slug # TrimSpace(org) \o <<"/">> \o TrimSpace(repo) THEN FALSE
    ELSE MatchString(re, it.Repo.Branch)

ReExtractByLabels(l, labels) ==
    LET match(item) == \E i \in 1..Len(labels) : ReHasLabel(item, labels[i])
        nomatch(item) == ~match(item)
    IN [matching |-> SelectSeq(l, match), remaining |-> SelectSeq(l, nomatch)]

ReExtractByPrefixes(l, prefixes) ==
    LET match(item) == \E i \in 1..Len(prefixes) : ReHasPrefix(item, prefixes[i])
        nomatch(item) == ~match(item)
    IN [matching |-> SelectSeq(l, match), remaining |-> SelectSeq(l, nomatch)]

ReExtractByBranch(l, org, repo, re) ==
    LET match(item) == ReIsBranch(item, org, repo, re)
        nomatch(item) == ~match(item)
    IN [matching |-> SelectSeq(l, match), remaining |-> SelectSeq(l, nomatch)]

\* ExtractAndRender, the loop over s.Match.Branch from rule i on: the pattern
\* is compiled, and a pattern that does not compile panics.
RECURSIVE ReExtractBranches(_, _, _, _)
ReExtractBranches(branches, i, mine, left) ==
    IF i > Len(branches) THEN [panicked |-> FALSE, mine |-> mine, left |-> left]
    ELSE LET b        == branches[i]
             branchRe == TrimSpace(b.Branch)
         IN IF ~RegexpCompiles(branchRe)
            THEN [panicked |-> TRUE, mine |-> mine, left |-> left]
            ELSE LET r == ReExtractByBranch(left, b.Org, b.Repo, branchRe)
                 IN ReExtractBranches(branches, i + 1, mine \o r.matching, r.remaining)

\* Section.ExtractAndRender (config.go).
ReExtractAndRender(s, l) ==
    LET byLabel  == ReExtractByLabels(l, s.Match.Labels)
        byPrefix == ReExtractByPrefixes(byLabel.remaining, s.Match.Prefixes)
    IN ReExtractBranches(s.Match.Branches, 1,
                         byLabel.matching \o byPrefix.matching, byPrefix.remaining)

\* render(), the loop over the sections from section i on, with the items
\* the sections before have taken; it ends with the first panic.
RECURSIVE ReRenderSections(_, _, _, _)
ReRenderSections(sections, i, left, steps) ==
    IF i > Len(sections) THEN [panicked |-> FALSE, section |-> 0, steps |-> steps, left |-> left]
    ELSE LET r    == ReExtractAndRender(sections[i], left)
             step == [Pool |-> left, Mine |-> r.mine, Left |-> r.left]
         IN IF r.panicked
            THEN [panicked |-> TRUE, section |-> i, steps |-> Append(steps, step), left |-> r.left]
            ELSE ReRenderSections(sections, i + 1, r.left, Append(steps, step))

\* The items the steps have taken, in order.
RECURSIVE Classified(_)
Classified(steps) ==
    IF steps = <<>> THEN <<>> ELSE Head(steps).Mine \o Classified(Tail(steps))

\* wrapped(), lines 144-154, with that ExtractAndRender: the report of the
\* next window, or the panic that ends the run before the report is written.
ReRenderWeek ==
    /\ pc = "split_done"
    /\ Len(reports) < Len(weeks)
    /\ LET week == weeks[Len(reports) + 1]
           r    == ReRenderSections(cfg.Sections, 1, week.Items, <<>>)
       IN IF r.panicked
          THEN /\ failure' = [panicked |-> TRUE, section |-> r.section,
                              classified |-> Classified(r.steps)]
               /\ pc' = "panicked"
               /\ UNCHANGED reports
          ELSE /\ reports' = Append(reports, renderTexts(cfg, week, r.steps, r.left))
               /\ UNCHANGED <<pc, failure>>
    /\ UNCHANGED <<input, now, cfg, arg, list, start, end, weeks, removed, query>>
    /\ UNCHANGED <<cli, sent, err, server, fetch>>

(***************************************************************************)
(* Writing the reports and archiving (main.go).                            *)
(***************************************************************************)
\* wrapped(), lines 150-153: os.WriteFile fails for the report of the next
\* window and wrapped() returns the error.
WriteFails ==
    /\ pc = "split_done"
    /\ Len(reports) < Len(weeks)
    /\ err' = "write"
    /\ pc' = "failed"
    /\ UNCHANGED <<input, now, cfg, arg, list, start, end, weeks, removed, reports, query,
                   failure, cli, sent, server, fetch>>

\* wrapped(), line 156 with --dry-run: the run ends without archiving.
DryRunReturn ==
    /\ pc = "rendered"
    /\ cli.DryRun
    /\ pc' = "done"
    /\ UNCHANGED <<input, now, cfg, arg, list, start, end, weeks, removed, reports, query,
                   failure, cli, sent, err, server, fetch>>

\* wrapped(), lines 156-163: without --dry-run, login and fetchProjectInfo,
\* whose query may fail.
ProjectInfo ==
    /\ pc = "rendered"
    /\ ~cli.DryRun
    /\ \E ok \in BOOLEAN :
        IF ok THEN pc' = "archiving" /\ UNCHANGED err
        ELSE pc' = "failed" /\ err' = "project"
    /\ UNCHANGED <<input, now, cfg, arg, list, start, end, weeks, removed, reports, query,
                   failure, cli, sent, server, fetch>>

\* A variant of archive's loops that visits the newest window only.
archiveOrder_NewestWindowOnly(ws) ==
    IF ws = <<>> THEN <<>>
    ELSE [i \in 1..Len(ws[1].Items) |-> ws[1].Items[i].ID]

\* archive(), lines 255-256: the IDs of the items in the order the two loops
\* visit them.
RECURSIVE archiveOrder(_)
archiveOrder(ws) ==
    IF ws = <<>> THEN <<>>
    ELSE [i \in 1..Len(Head(ws).Items) |-> Head(ws).Items[i].ID] \o archiveOrder(Tail(ws))

\* A variant of archive's error check that goes on after a failed request.
archiveContinues_IgnoresError(ok) == TRUE

\* archive(), lines 257-259: the loops go on after a request that succeeded.
archiveContinues(ok) == ok

\* archive(), lines 255-260: the archiveItem request for the next item; a
\* request that fails ends archive() and wrapped() with the error.
ArchiveItem ==
    /\ pc = "archiving"
    /\ Len(sent) < Len(archiveOrder(weeks))
    /\ \E ok \in BOOLEAN :
        /\ sent' = Append(sent, [ID |-> archiveOrder(weeks)[Len(sent) + 1], ok |-> ok])
        /\ IF archiveContinues(ok) THEN UNCHANGED <<pc, err>>
           ELSE pc' = "failed" /\ err' = "archive"
    /\ UNCHANGED <<input, now, cfg, arg, list, start, end, weeks, removed, reports, query,
                   failure, cli, server, fetch>>

\* archive(), line 263, and wrapped(), lines 166-170: every item has been
\* requested and the run ends.
ArchiveReturn ==
    /\ pc = "archiving"
    /\ Len(sent) = Len(archiveOrder(weeks))
    /\ pc' = "done"
    /\ UNCHANGED <<input, now, cfg, arg, list, start, end, weeks, removed, reports, query,
                   failure, cli, sent, err, server, fetch>>

(***************************************************************************)
(* Inputs.                                                                 *)
(***************************************************************************)
Str_Done == <<"D", "o", "n", "e">>
Str_Todo == <<"T", "o", "d", "o">>
Str_a == <<"a">>
Str_U == <<"U">>
Str_Up == <<"U", "p">>
Str_x == <<"x">>
Str_slug == <<"o", "/", "r">>
Str_m == <<"m">>
Str_deployment == <<"d", "e", "p", "l", "o", "y", "m", "e", "n", "t">>

TextField(text) == [Type |-> FIELD_TEXT, Text |-> text]

MkItem(id, status, doneAt, labels, title, branch) ==
    [ID     |-> id,
     Fields |-> [Status |-> TextField(status), Title |-> TextField(title)],
     Labels |-> labels,
     DoneAt |-> doneAt,
     Repo   |-> [Slug |-> Str_slug, Branch |-> branch]]

MkSection(order, labels, prefixes, branches) ==
    [RenderOrder |-> order, OmitIfEmpty |-> TRUE,
     Match |-> [Labels |-> labels, Prefixes |-> prefixes, Branches |-> branches]]

AnyBranch == [Org |-> Str_star, Repo |-> Str_star, Branch |-> Str_star]

\* The label_section of the configuration: the listing of labels switched on
\* (rendered at 100) and switched off, as it is by default.
LabelsOn == [Enabled |-> TRUE, RenderOrder |-> 100]
LabelsOff == [Enabled |-> FALSE, RenderOrder |-> 0]

\* The summary of the configuration: switched off, as it is by default, and
\* switched on, rendered at 10.
SummaryOff == [Enabled |-> FALSE, RenderOrder |-> 0]
SummaryOn == [Enabled |-> TRUE, RenderOrder |-> 10]

\* Sequences of length 0..n over S.
SeqsUpTo(S, n) == UNION {[1..k -> S] : k \in 0..n}

\* A Sunday: 2022-07-17.
EpochDay == DayOf(2022, 7, 17)

\* The completion instants of the windowing inputs: midnight UTC of days on and
\* between week boundaries, and the zero time.
SlotDay(k) == EpochDay + DaysPerWeek * (k \div 2) + 3 * (k % 2)
ItemTimes == {ZeroTime} \cup {MidnightUTC(SlotDay(k)) : k \in 0..MaxSlots}

\* Clock values around the Sunday boundary two weeks after EpochDay, in the
\* locations UTC and one tick either side of it.
ZoneOffsets == {-1, 0, 1}
NowTimes ==
    {[utc |-> MidnightUTC(EpochDay + 2 * DaysPerWeek) + d, off |-> z] :
        d \in {-1, 0, 1}, z \in ZoneOffsets}

DefaultCfg ==
    [Sections |-> <<MkSection(10, <<Str_a>>, <<>>, <<>>),
                    MkSection(20, <<>>, <<Str_U>>, <<AnyBranch>>)>>,
     Unclassified |-> [RenderOrder |-> 1000, OmitIfEmpty |-> TRUE],
     LabelSection |-> LabelsOff, Summary |-> SummaryOff]

\* Windowing inputs: lists of up to MaxItems items; the item's ID is its place
\* in the list.  An item is done, completed at any of ItemTimes, or it is not
\* done ("Todo") and carries the close time of the second slot.
WindowKinds ==
    [status : {Str_Done}, at : ItemTimes]
        \cup {[status |-> Str_Todo, at |-> MidnightUTC(SlotDay(1))]}

WindowItems ==
    {[i \in 1..Len(f) |->
        MkItem(i, f[i].status, f[i].at, IF i = 1 THEN <<Str_a>> ELSE <<>>, Str_Up, <<>>)] :
     f \in SeqsUpTo(WindowKinds, MaxItems)}

\* The inputs of a run: the fetched items, the clock and the configuration.
WindowInputs == [items : WindowItems, now : NowTimes, cfg : {DefaultCfg}]

\* The scenario of the specification: items done on 2022-08-01, 2022-08-03
\* and 2022-07-20, and now = 2022-08-07 00:00 UTC (a Sunday).
ScenarioItems ==
    <<MkItem(1, Str_Done, MidnightUTC(DayOf(2022, 8, 1)), <<Str_deployment>>, Str_x, <<>>),
      MkItem(2, Str_Done, MidnightUTC(DayOf(2022, 8, 3)), <<>>, Str_Up, Str_m),
      MkItem(3, Str_Done, MidnightUTC(DayOf(2022, 7, 20)), <<>>, Str_x, <<>>)>>

ScenarioNow == [utc |-> MidnightUTC(DayOf(2022, 8, 7)), off |-> 0]

ScenarioCfg ==
    [Sections |-> <<MkSection(10, <<Str_deployment>>, <<>>, <<>>),
                    MkSection(20, <<>>, <<Str_U>>, <<>>)>>,
     Unclassified |-> [RenderOrder |-> 1000, OmitIfEmpty |-> TRUE],
     LabelSection |-> LabelsOn, Summary |-> SummaryOff]

ScenarioInputs == {[items |-> ScenarioItems, now |-> ScenarioNow, cfg |-> ScenarioCfg]}

\* Classification inputs: up to MaxClassItems done items of one window and up
\* to MaxSections sections.  An item carries the label "a" or none, a title
\* with the prefix "U" or without, and is an issue (no branch) or a pull
\* request; a section has a label rule, a prefix rule, a branch rule, several
\* of them or none.
ItemShapes ==
    {[labels |-> <<>>,      title |-> Str_x,  branch |-> <<>>],
     [labels |-> <<Str_a>>, title |-> Str_x,  branch |-> <<>>],
     [labels |-> <<>>,      title |-> Str_Up, branch |-> <<>>],
     [labels |-> <<>>,      title |-> Str_x,  branch |-> Str_m],
     [labels |-> <<>>,      title |-> Str_Up, branch |-> Str_m],
     [labels |-> <<Str_a>>, title |-> Str_Up, branch |-> Str_m]}

SectionShapes ==
    {[labels |-> <<>>,      prefixes |-> <<>>,      branches |-> <<>>],
     [labels |-> <<Str_a>>, prefixes |-> <<>>,      branches |-> <<>>],
     [labels |-> <<>>,      prefixes |-> <<Str_U>>, branches |-> <<>>],
     [labels |-> <<>>,      prefixes |-> <<>>,      branches |-> <<AnyBranch>>],
     [labels |-> <<>>,      prefixes |-> <<Str_U>>, branches |-> <<AnyBranch>>],
     [labels |-> <<Str_a>>, prefixes |-> <<Str_U>>, branches |-> <<AnyBranch>>]}

ClassItems ==
    {[i \in 1..Len(f) |->
        MkItem(i, Str_Done, MidnightUTC(SlotDay(3)), f[i].labels, f[i].title, f[i].branch)] :
     f \in SeqsUpTo(ItemShapes, MaxClassItems)}

ClassSections ==
    {[i \in 1..Len(f) |-> MkSection(10 * i, f[i].labels, f[i].prefixes, f[i].branches)] :
     f \in SeqsUpTo(SectionShapes, MaxSections)}

ClassInputs ==
    [items : ClassItems,
     now   : {[utc |-> MidnightUTC(EpochDay + 2 * DaysPerWeek), off |-> 0]},
     cfg   : {[Sections |-> ss, Unclassified |-> [RenderOrder |-> 1000, OmitIfEmpty |-> TRUE],
     LabelSection |-> LabelsOn, Summary |-> SummaryOff] :
                 ss \in ClassSections}]

\* Matcher inputs: strings with surrounding whitespace, letters in either case
\* and glob patterns.
Str_empty == <<>>
Str_blank == <<" ">>
Str_A == <<"A">>
Str_b == <<"b">>
Str_ab == <<"a", "b">>
Str_a_padded == <<" ", "a", " ">>
Str_a_star == <<"a", "*">>
Str_star_padded == <<" ", "*", " ">>
Str_Deployment == <<"D", "e", "p", "l", "o", "y", "m", "e", "n", "t">>
Str_UpdateSomething == <<"U", "p", "d", "a", "t", "e", " ", "S", "o", "m", "e", "t", "h", "i", "n", "g">>
Str_Up_star == <<"U", "p", "*">>
Str_Up_padded == <<" ", "U", "p", " ">>
Str_up == <<"u", "p">>
Str_o == <<"o">>
Str_r == <<"r">>
Str_o_padded == <<" ", "o", " ">>
Str_m_padded == <<" ", "m", " ">>
Str_m_star == <<"m", "*">>
Str_main == <<"m", "a", "i", "n">>

\* An item with the fields, labels and repository given.
MkRawItem(id, fields, doneAt, labels, slug, branch) ==
    [ID     |-> id,
     Fields |-> fields,
     Labels |-> labels,
     DoneAt |-> doneAt,
     Repo   |-> [Slug |-> slug, Branch |-> branch]]

DoneStatus == [Type |-> FIELD_TEXT, Text |-> Str_Done]

\* The items of the matcher inputs: issues (no branch), pull requests and a
\* draft (no repository); a Title that is text, absent or not text-typed.
MatchItemShapes ==
    {[fields |-> [Status |-> DoneStatus, Title |-> TextField(Str_UpdateSomething)],
      labels |-> <<>>, slug |-> Str_slug, branch |-> Str_main],
     [fields |-> [Status |-> DoneStatus, Title |-> TextField(Str_x)],
      labels |-> <<Str_deployment>>, slug |-> Str_slug, branch |-> <<>>],
     [fields |-> [Status |-> DoneStatus, Title |-> TextField(Str_Up_padded)],
      labels |-> <<Str_Deployment>>, slug |-> Str_slug, branch |-> <<>>],
     [fields |-> [Status |-> DoneStatus],
      labels |-> <<Str_a_padded>>, slug |-> <<>>, branch |-> <<>>],
     [fields |-> [Status |-> DoneStatus,
                  Title |-> [Type |-> FIELD_NUMBER, Text |-> Str_UpdateSomething]],
      labels |-> <<Str_b, Str_a>>, slug |-> Str_slug, branch |-> Str_m_padded],
     [fields |-> [Status |-> DoneStatus, Title |-> TextField(Str_up)],
      labels |-> <<Str_ab, Str_A>>, slug |-> Str_slug, branch |-> Str_blank],
     [fields |-> [Status |-> DoneStatus, Title |-> TextField(Str_empty)],
      labels |-> <<Str_blank>>, slug |-> <<>>, branch |-> Str_m]}

BranchRule(org, repo, branch) == [Org |-> org, Repo |-> repo, Branch |-> branch]

\* The sections of the matcher inputs: one family of rules each.
MatchSections ==
    {MkSection(10, ls, <<>>, <<>>) :
        ls \in {<<Str_star>>, <<Str_a>>, <<Str_a_padded>>, <<Str_a_star>>, <<Str_star_padded>>,
                <<Str_deployment>>, <<Str_x, Str_b>>}}
    \cup {MkSection(10, <<>>, ps, <<>>) :
        ps \in {<<Str_Up_star>>, <<Str_UpdateSomething>>, <<Str_Up_padded>>, <<Str_up>>,
                <<Str_empty>>, <<Str_x, Str_U>>}}
    \cup {MkSection(10, <<>>, <<>>, bs) :
        bs \in {<<AnyBranch>>,
                <<BranchRule(Str_o, Str_r, Str_main)>>,
                <<BranchRule(Str_o_padded, Str_r, Str_m_padded)>>,
                <<BranchRule(Str_x, Str_star, Str_star)>>,
                <<BranchRule(Str_o, Str_star, Str_m_star)>>,
                <<BranchRule(Str_x, Str_r, Str_m), BranchRule(Str_star, Str_r, Str_m)>>}}

MatchItems ==
    {[i \in 1..Len(f) |->
        MkRawItem(i, f[i].fields, MidnightUTC(SlotDay(3)), f[i].labels, f[i].slug, f[i].branch)] :
     f \in SeqsUpTo(MatchItemShapes, MaxClassItems)}

MatchInputs ==
    [items : MatchItems,
     now   : {[utc |-> MidnightUTC(EpochDay + 2 * DaysPerWeek), off |-> 0]},
     cfg   : {[Sections |-> <<sec>>, Unclassified |-> [RenderOrder |-> 1000, OmitIfEmpty |-> TRUE],
     LabelSection |-> LabelsOn, Summary |-> SummaryOff] :
                 sec \in MatchSections}]

\* Label counting inputs: up to MaxLabelItems done items of one window, with
\* no label, several labels, a label twice, and labels that differ only in
\* case or surrounding whitespace; one section that takes the items labelled
\* "b"; the label section switched on or off.
LabelLists ==
    {<<>>, <<Str_a, Str_b>>, <<Str_b>>, <<Str_a_padded, Str_A>>, <<Str_a, Str_a>>}

LabelItems ==
    {[i \in 1..Len(f) |-> MkItem(i, Str_Done, MidnightUTC(SlotDay(3)), f[i], Str_x, <<>>)] :
     f \in SeqsUpTo(LabelLists, MaxLabelItems)}

LabelInputs ==
    [items : LabelItems,
     now   : {[utc |-> MidnightUTC(EpochDay + 2 * DaysPerWeek), off |-> 0]},
     cfg   : {[Sections |-> <<MkSection(10, <<Str_b>>, <<>>, <<>>)>>,
               Unclassified |-> [RenderOrder |-> 1000, OmitIfEmpty |-> TRUE],
               LabelSection |-> ls, Summary |-> SummaryOff] : ls \in {LabelsOn, LabelsOff}}]

\* Status inputs: lists of up to MaxItems items closed in one week, whose
\* Status field is absent, is text in several spellings, or holds the text
\* "done" without being text-typed.
Str_DONE == <<"D", "O", "N", "E">>
Str_done_padded == <<" ", "d", "o", "n", "e">>

StatusShapes ==
    {[Title |-> TextField(Str_x)]}
    \cup {[Status |-> TextField(t), Title |-> TextField(Str_x)] :
            t \in {Str_done, Str_Done, Str_DONE, Str_Todo, Str_done_padded, Str_empty}}
    \cup {[Status |-> [Type |-> ty, Text |-> Str_done], Title |-> TextField(Str_x)] :
            ty \in {FIELD_EMPTY, FIELD_NUMBER}}

StatusItems ==
    {[i \in 1..Len(f) |->
        MkRawItem(i, f[i], MidnightUTC(SlotDay(3) - (i % 2)), <<>>, Str_slug, <<>>)] :
     f \in SeqsUpTo(StatusShapes, MaxItems)}

StatusInputs ==
    [items : StatusItems,
     now   : {[utc |-> MidnightUTC(EpochDay + 2 * DaysPerWeek), off |-> 0]},
     cfg   : {DefaultCfg}]

\* The same section lists with the render_order values descending: a section
\* listed later is rendered earlier.
ReorderedSections ==
    {[i \in 1..Len(ss) |-> [ss[i] EXCEPT !.RenderOrder = 10 * (Len(ss) - i + 1)]] :
     ss \in {t \in ClassSections : Len(t) >= 2}}

OrderInputs ==
    [items : ClassItems,
     now   : {[utc |-> MidnightUTC(EpochDay + 2 * DaysPerWeek), off |-> 0]},
     cfg   : {[Sections |-> ss, Unclassified |-> [RenderOrder |-> 1000, OmitIfEmpty |-> TRUE],
     LabelSection |-> LabelsOn, Summary |-> SummaryOff] :
                 ss \in ReorderedSections}]

\* Render order inputs: configurations in which two texts are given the same
\* render_order.  Two sections that leave render_order out (0 both), a
\* section at the render_order of the unclassified section, an unclassified
\* section at that of the label section, and a summary at that of a section.
RenderOrderCfgs ==
    {[Sections |-> <<MkSection(0, <<Str_a>>, <<>>, <<>>), MkSection(0, <<>>, <<Str_U>>, <<>>)>>,
      Unclassified |-> [RenderOrder |-> 1000, OmitIfEmpty |-> TRUE],
      LabelSection |-> LabelsOff, Summary |-> SummaryOff],
     [Sections |-> <<MkSection(1000, <<Str_a>>, <<>>, <<>>)>>,
      Unclassified |-> [RenderOrder |-> 1000, OmitIfEmpty |-> TRUE],
      LabelSection |-> LabelsOff, Summary |-> SummaryOff],
     [Sections |-> <<MkSection(10, <<Str_a>>, <<>>, <<>>)>>,
      Unclassified |-> [RenderOrder |-> 100, OmitIfEmpty |-> FALSE],
      LabelSection |-> LabelsOn, Summary |-> SummaryOff],
     [Sections |-> <<MkSection(10, <<Str_a>>, <<>>, <<>>), MkSection(20, <<>>, <<Str_U>>, <<>>)>>,
      Unclassified |-> [RenderOrder |-> 1000, OmitIfEmpty |-> TRUE],
      LabelSection |-> LabelsOn, Summary |-> SummaryOn]}

RenderOrderInputs ==
    [items : {l \in ClassItems : Len(l) <= 2},
     now   : {[utc |-> MidnightUTC(EpochDay + 2 * DaysPerWeek), off |-> 0]},
     cfg   : RenderOrderCfgs]

(***************************************************************************)
(* The time queries called on a list directly (structs.go).                *)
(***************************************************************************)
NoQuery == [op |-> "none", from |-> ZeroTime, to |-> ZeroTime, items |-> <<>>]

\* The instants a query is made with: the zero time and the completion
\* instants of the inputs.
QueryTimes == ItemTimes

\* list.GetOlder(when) on the fetched list.
QueryOlder ==
    /\ pc = "start"
    /\ \E when \in QueryTimes :
        query' = [op |-> "GetOlder", from |-> when, to |-> when,
                  items |-> GetOlder(input, when)]
    /\ pc' = "queried"
    /\ UNCHANGED <<input, now, cfg, arg, list, start, end, weeks, removed, reports, failure>>
    /\ UNCHANGED <<cli, sent, err, server, fetch>>

\* list.GetInRange(start, end) on the fetched list.
QueryInRange ==
    /\ pc = "start"
    /\ \E from \in QueryTimes, to \in QueryTimes :
        query' = [op |-> "GetInRange", from |-> from, to |-> to,
                  items |-> GetInRange(input, from, to)]
    /\ pc' = "queried"
    /\ UNCHANGED <<input, now, cfg, arg, list, start, end, weeks, removed, reports, failure>>
    /\ UNCHANGED <<cli, sent, err, server, fetch>>

(***************************************************************************)
(* Fetching the items (graphql.go).                                        *)
(***************************************************************************)
\* A nil pointer, and a pointer to a value.
Nil == <<>>
Ptr(v) == <<v>>

\* Field{}: the zero value of a field, and the fields the Get methods of the
\* field values return (of an iteration value only the start date is kept
\* here).
NoField ==
    [Type |-> FIELD_EMPTY, Name |-> "", Text |-> <<>>, Date |-> ZeroTime, Number |-> 0,
     StartDate |-> ZeroTime]

\* FieldDateValue.Get
DateValueGet(n) ==
    IF n.field = Nil \/ n.date = Nil THEN NoField
    ELSE [NoField EXCEPT !.Type = FIELD_DATE, !.Name = n.field[1], !.Date = n.date[1]]

\* FieldIterationValue.Get
IterationValueGet(n) ==
    IF n.field = Nil \/ n.startDate = Nil THEN NoField
    ELSE [NoField EXCEPT !.Type = FIELD_ITERATION, !.Name = n.field[1],
                         !.StartDate = n.startDate[1]]

\* FieldNumberValue.Get
NumberValueGet(n) ==
    IF n.field = Nil \/ n.number = Nil THEN NoField
    ELSE [NoField EXCEPT !.Type = FIELD_NUMBER, !.Name = n.field[1], !.Number = n.number[1]]

\* FieldSingleSelectValue.Get
SelectValueGet(n) ==
    IF n.field = Nil \/ n.name = Nil THEN NoField
    ELSE [NoField EXCEPT !.Type = FIELD_TEXT, !.Name = n.field[1], !.Text = n.name[1]]

\* FieldTextValue.Get
TextValueGet(n) ==
    IF n.field = Nil \/ n.text = Nil THEN NoField
    ELSE [NoField EXCEPT !.Type = FIELD_TEXT, !.Name = n.field[1], !.Text = n.text[1]]

\* ToClean, lines 220-239: rv.Fields[f.Name] = f unless f is empty.
PutField(fields, f) == IF f.Type # FIELD_EMPTY THEN Put(fields, f.Name, f) ELSE fields

\* ToClean, lines 219-244: the fields and the labels of the field value nodes
\* from node i on.
RECURSIVE FieldsOf(_, _, _)
FieldsOf(nodes, i, fields) ==
    IF i > Len(nodes) THEN fields
    ELSE LET n == nodes[i]
         IN FieldsOf(nodes, i + 1,
                PutField(PutField(PutField(PutField(PutField(fields,
                    DateValueGet(n)), IterationValueGet(n)), NumberValueGet(n)),
                    SelectValueGet(n)), TextValueGet(n)))

RECURSIVE LabelsOfNodes(_, _)
LabelsOfNodes(nodes, i) ==
    IF i > Len(nodes) THEN <<>> ELSE nodes[i].labels \o LabelsOfNodes(nodes, i + 1)

\* A variant of the choice of a pull request's completion time that prefers
\* closedAt.
DoneAtOfPR_ClosedAtFirst(pr) ==
    IF pr.ClosedAt # Nil THEN pr.ClosedAt[1] ELSE pr.MergedAt[1]

\* ToClean, lines 205-209: the completion time of a pull request that has
\* one.
DoneAtOfPR(pr) ==
    IF pr.MergedAt # Nil THEN pr.MergedAt[1] ELSE pr.ClosedAt[1]

\* GqlItem.ToClean
ToClean(g) ==
    LET rv == [ID |-> g.ID, Archived |-> g.IsArchived,
               Fields |-> FieldsOf(g.FieldValues, 1, EmptyMap),
               Labels |-> LabelsOfNodes(g.FieldValues, 1),
               DoneAt |-> ZeroTime, ItemType |-> "", Number |-> 0, URL |-> "",
               Repo |-> [Name |-> "", Slug |-> <<>>, URL |-> "", Branch |-> <<>>]]
        iss == IF g.Issue.ClosedAt # Nil
               THEN [rv EXCEPT !.DoneAt = g.Issue.ClosedAt[1],
                               !.ItemType = "ISSUE",
                               !.Number = g.Issue.Number,
                               !.URL = g.Issue.URL,
                               !.Repo.Name = g.Issue.Repository.Name,
                               !.Repo.Slug = g.Issue.Repository.NameWithOwner,
                               !.Repo.URL = g.Issue.Repository.URL]
               ELSE rv
    IN IF g.PR.MergedAt # Nil \/ g.PR.ClosedAt # Nil
       THEN [iss EXCEPT !.DoneAt = DoneAtOfPR(g.PR),
                        !.ItemType = "PR",
                        !.Number = g.PR.Number,
                        !.URL = g.PR.URL,
                        !.Repo.Name = g.PR.Repository.Name,
                        !.Repo.Slug = g.PR.Repository.NameWithOwner,
                        !.Repo.URL = g.PR.Repository.URL,
                        !.Repo.Branch = g.PR.BaseRefName]
       ELSE iss

\* fetchIssues has not been called.
NoFetch ==
    [called |-> FALSE, after |-> Nil, more |-> FALSE, items |-> <<>>, requests |-> <<>>,
     returned |-> FALSE, result |-> Nil, failed |-> FALSE]

\* client.Query: the answer to the n-th request, an error once the server has
\* no answer left.
NoAnswer == [ok |-> FALSE, Nodes |-> <<>>, HasNextPage |-> FALSE, EndCursor |-> ""]
Respond(answers, n) == IF n <= Len(answers) THEN answers[n] ELSE NoAnswer

\* A variant of the accumulation that keeps the items of the last page only.
fetchAppend_LastPageOnly(items, nodes) == [k \in 1..Len(nodes) |-> ToClean(nodes[k])]

\* fetchIssues, lines 302-304: the items of a page are appended, normalized.
fetchAppend(items, nodes) == items \o [k \in 1..Len(nodes) |-> ToClean(nodes[k])]

\* What the server answers with.  A field value node carries a field name
\* and a value of one kind, or labels, or nothing.
EmptyNode ==
    [field |-> Nil, date |-> Nil, startDate |-> Nil, number |-> Nil, name |-> Nil,
     text |-> Nil, labels |-> <<>>]
TitleNode(title) == [EmptyNode EXCEPT !.field = Ptr("Title"), !.text = Ptr(title)]
StatusNode(status) == [EmptyNode EXCEPT !.field = Ptr("Status"), !.name = Ptr(status)]
DueNode(t) == [EmptyNode EXCEPT !.field = Ptr("Due"), !.date = Ptr(t)]
LabelsNode(labels) == [EmptyNode EXCEPT !.labels = labels]

\* The content of an item seen through the Issue fragment and through the
\* PullRequest fragment: the fragment that does not apply stays empty.
NoRepository == [Name |-> "", NameWithOwner |-> <<>>, URL |-> ""]
SomeRepository == [Name |-> "r", NameWithOwner |-> Str_slug, URL |-> "https://github.com/o/r"]
NoIssue == [ClosedAt |-> Nil, Number |-> 0, URL |-> "", Repository |-> NoRepository]
NoPullRequest ==
    [ClosedAt |-> Nil, MergedAt |-> Nil, Number |-> 0, URL |-> "", BaseRefName |-> <<>>,
     Repository |-> NoRepository]
AnIssue(closedAt) ==
    [ClosedAt |-> closedAt, Number |-> 88, URL |-> "https://github.com/o/r/issues/88",
     Repository |-> SomeRepository]
APullRequest(mergedAt, closedAt) ==
    [ClosedAt |-> closedAt, MergedAt |-> mergedAt, Number |-> 24,
     URL |-> "https://github.com/o/r/pull/24", BaseRefName |-> Str_m,
     Repository |-> SomeRepository]

MkGqlItem(id, status, issue, pr) ==
    [ID |-> id, IsArchived |-> FALSE,
     FieldValues |-> <<EmptyNode, TitleNode(Str_Up), StatusNode(status),
                       DueNode(MidnightUTC(SlotDay(4))), LabelsNode(<<Str_a>>)>>,
     Issue |-> issue, PR |-> pr]

\* The instants of the answers: closed, merged, and closed after the merge.
ClosedTime == MidnightUTC(SlotDay(1))
MergedTime == MidnightUTC(SlotDay(2))
ClosedLater == MidnightUTC(SlotDay(3))

\* The answers the server can give to the i-th request: an error, or a page.
\* The pages hold a closed issue; a pull request merged and closed and an open
\* issue; a pull request closed unmerged and one with mergedAt only; a draft
\* and an open pull request; nothing.  The ID of an item tells its page and
\* its place in the page.
Answer(i, shape) ==
    CASE shape = 1 ->
            [ok |-> TRUE, HasNextPage |-> TRUE, EndCursor |-> "x",
             Nodes |-> <<MkGqlItem(10 * i + 1, Str_Done, AnIssue(Ptr(ClosedTime)),
                                   NoPullRequest)>>]
      [] shape = 2 ->
            [ok |-> TRUE, HasNextPage |-> TRUE, EndCursor |-> "y",
             Nodes |-> <<MkGqlItem(10 * i + 1, Str_Done, NoIssue,
                                   APullRequest(Ptr(MergedTime), Ptr(ClosedLater))),
                         MkGqlItem(10 * i + 2, Str_Todo, AnIssue(Nil), NoPullRequest)>>]
      [] shape = 3 ->
            [ok |-> TRUE, HasNextPage |-> FALSE, EndCursor |-> "x",
             Nodes |-> <<MkGqlItem(10 * i + 1, Str_Done, NoIssue,
                                   APullRequest(Nil, Ptr(ClosedLater))),
                         MkGqlItem(10 * i + 2, Str_Todo, NoIssue,
                                   APullRequest(Ptr(MergedTime), Nil))>>]
      [] shape = 4 ->
            [ok |-> TRUE, HasNextPage |-> FALSE, EndCursor |-> "",
             Nodes |-> <<MkGqlItem(10 * i + 1, Str_Done, NoIssue, NoPullRequest),
                         MkGqlItem(10 * i + 2, Str_Done, NoIssue, APullRequest(Nil, Nil))>>]
      [] shape = 5 ->
            [ok |-> TRUE, HasNextPage |-> TRUE, EndCursor |-> "y", Nodes |-> <<>>]
      [] OTHER -> NoAnswer

\* The servers: up to MaxPages answers, in the order of the requests.
Servers ==
    {[i \in 1..Len(f) |-> Answer(i, f[i])] : f \in SeqsUpTo(1..6, MaxPages)}

\* wrapped(), lines 100-113, and fetchIssues, lines 272-282: no cache file is
\* used; fetchIssues is called and prepares its first request.
FetchBegin ==
    /\ pc = "init"
    /\ server' \in Servers
    /\ fetch' = [NoFetch EXCEPT !.called = TRUE, !.more = TRUE]
    /\ pc' = "fetching"
    /\ UNCHANGED <<input, now, cfg, arg, list, start, end, weeks, removed, reports, query,
                   failure, cli, sent, err>>

\* fetchIssues, lines 283-308: one request.  An error ends fetchIssues with
\* nil and the error, and wrapped() with the error (main.go:124-126);
\* otherwise the items of the page are appended and the page's PageInfo is
\* taken over.
FetchPage ==
    /\ pc = "fetching"
    /\ fetch.more
    /\ LET requests == Append(fetch.requests, fetch.after)
           answer   == Respond(server, Len(requests))
       IN IF ~answer.ok
          THEN /\ fetch' = [fetch EXCEPT !.requests = requests, !.returned = TRUE,
                                         !.result = Nil, !.failed = TRUE]
               /\ err' = "fetch"
               /\ pc' = "failed"
          ELSE /\ fetch' = [fetch EXCEPT !.requests = requests,
                                         !.items = fetchAppend(fetch.items, answer.Nodes),
                                         !.more = answer.HasNextPage,
                                         !.after = Ptr(answer.EndCursor)]
               /\ UNCHANGED <<err, pc>>
    /\ UNCHANGED <<input, now, cfg, arg, list, start, end, weeks, removed, reports, query,
                   failure, cli, sent, server>>

\* fetchIssues, line 310, and wrapped(), line 120: the items are returned.
FetchReturn ==
    /\ pc = "fetching"
    /\ ~fetch.more
    /\ fetch' = [fetch EXCEPT !.returned = TRUE, !.result = fetch.items]
    /\ input' = fetch.items
    /\ pc' = "fetched"
    /\ UNCHANGED <<now, cfg, arg, list, start, end, weeks, removed, reports, query,
                   failure, cli, sent, err, server>>

(***************************************************************************)
(* The run of wrapped() (main.go).                                         *)
(***************************************************************************)
\* Before wrapped() has read anything.
Init ==
    /\ pc = "init"
    /\ input = <<>>
    /\ now = [utc |-> ZeroTime, off |-> 0]
    /\ cfg = [Sections |-> <<>>, Unclassified |-> [RenderOrder |-> 0, OmitIfEmpty |-> FALSE],
              LabelSection |-> [Enabled |-> FALSE, RenderOrder |-> 0],
              Summary |-> [Enabled |-> FALSE, RenderOrder |-> 0]]
    /\ arg = <<>>
    /\ list = <<>>
    /\ start = ZeroTime
    /\ end = ZeroTime
    /\ weeks = <<>>
    /\ removed = <<>>
    /\ reports = <<>>
    /\ query = NoQuery
    /\ failure = NoFailure
    /\ cli = [DryRun |-> FALSE]
    /\ sent = <<>>
    /\ err = ""
    /\ server = <<>>
    /\ fetch = NoFetch

\* wrapped(), lines 93-140: the configuration is read, the items are fetched
\* (or read from the cache file) and the clock is read.
Load(inputs) ==
    /\ pc = "init"
    /\ \E in \in inputs :
        /\ input' = in.items
        /\ now' = in.now
        /\ cfg' = in.cfg
    /\ pc' = "start"
    /\ UNCHANGED <<arg, list, start, end, weeks, removed, reports, query, failure>>
    /\ UNCHANGED <<cli, sent, err, server, fetch>>

LoadWindows == Load(WindowInputs \cup ScenarioInputs \cup StatusInputs)

LoadClassify ==
    Load(ClassInputs \cup OrderInputs \cup MatchInputs \cup LabelInputs \cup RenderOrderInputs)

Steps ==
    \/ GetDoneStep
    \/ SplitBegin
    \/ SplitLoop
    \/ SplitReturn
    \/ RenderWeek
    \/ RenderDone

Next == LoadWindows \/ Steps

NextClassify == LoadClassify \/ Steps

\* Runs over the windowing inputs.
Spec == Init /\ [][Next]_vars

\* splitByWeeks is sequential code: while its loop can go round or be left,
\* it does.
LiveSpec == Init /\ [][Next]_vars /\ WF_vars(SplitLoop \/ SplitReturn)

\* Query inputs: the windowing lists under one clock.
QueryInputs ==
    [items : WindowItems,
     now   : {[utc |-> MidnightUTC(EpochDay + 2 * DaysPerWeek), off |-> 0]},
     cfg   : {DefaultCfg}]

LoadQueries == Load(QueryInputs)

NextQueries == LoadQueries \/ QueryOlder \/ QueryInRange \/ Steps

\* Runs in which the fetched list is queried directly or windowed.
SpecQueries == Init /\ [][NextQueries]_vars

\* Regular expression inputs: up to MaxClassItems done items of one week (or
\* none), and one or two sections whose branch rules hold a pattern that
\* compiles ("m", "(m)") or one that does not ("(").
Str_paren == <<"(">>
Str_m_group == <<"(", "m", ")">>

ReSectionShapes ==
    {[labels |-> <<Str_a>>, prefixes |-> <<>>,      branches |-> <<>>],
     [labels |-> <<>>,      prefixes |-> <<Str_U>>, branches |-> <<BranchRule(Str_o, Str_r, Str_m)>>],
     [labels |-> <<>>,      prefixes |-> <<>>,      branches |-> <<BranchRule(Str_o, Str_r, Str_m_group)>>],
     [labels |-> <<>>,      prefixes |-> <<>>,      branches |-> <<BranchRule(Str_o, Str_r, Str_paren)>>],
     [labels |-> <<Str_a>>, prefixes |-> <<>>,      branches |-> <<BranchRule(Str_o, Str_r, Str_paren)>>]}

ReSections ==
    {[i \in 1..Len(f) |-> MkSection(10 * i, f[i].labels, f[i].prefixes, f[i].branches)] :
     f \in SeqsUpTo(ReSectionShapes, MaxSections) \ {<<>>}}

ReInputs ==
    [items : ClassItems,
     now   : {[utc |-> MidnightUTC(EpochDay + 2 * DaysPerWeek), off |-> 0]},
     cfg   : {[Sections |-> ss, Unclassified |-> [RenderOrder |-> 1000, OmitIfEmpty |-> TRUE],
               LabelSection |-> LabelsOn, Summary |-> SummaryOff] : ss \in ReSections}]

LoadRegexp == Load(ReInputs)

NextRegexp ==
    \/ LoadRegexp
    \/ GetDoneStep
    \/ SplitBegin
    \/ SplitLoop
    \/ SplitReturn
    \/ ReRenderWeek
    \/ RenderDone

\* Runs of the build whose branch patterns are regular expressions.
SpecRegexp == Init /\ [][NextRegexp]_vars

\* Runs over the classification inputs.
SpecClassify == Init /\ [][NextClassify]_vars

\* Archiving inputs: up to MaxArchiveItems items, each done in the last
\* window (on its start), done two windows earlier, done without a
\* completion time, or not done; every clock of NowTimes; with and without
\* --dry-run.
ArchiveKinds ==
    {[status |-> Str_Done, at |-> MidnightUTC(SlotDay(2))],
     [status |-> Str_Done, at |-> MidnightUTC(SlotDay(0) - 1)],
     [status |-> Str_Done, at |-> ZeroTime],
     [status |-> Str_Todo, at |-> MidnightUTC(SlotDay(1))]}

ArchiveItems ==
    {[i \in 1..Len(f) |->
        MkItem(i, f[i].status, f[i].at, IF i = 1 THEN <<Str_a>> ELSE <<>>, Str_Up, <<>>)] :
     f \in SeqsUpTo(ArchiveKinds, MaxArchiveItems)}

ArchiveInputs == [items : ArchiveItems, now : NowTimes, cfg : {DefaultCfg}]

\* wrapped(), lines 50-140, with the --dry-run flag of the command line.
LoadArchive ==
    /\ pc = "init"
    /\ \E in \in ArchiveInputs, dry \in BOOLEAN :
        /\ input' = in.items
        /\ now' = in.now
        /\ cfg' = in.cfg
        /\ cli' = [DryRun |-> dry]
    /\ pc' = "start"
    /\ UNCHANGED <<arg, list, start, end, weeks, removed, reports, query, failure, sent, err,
                   server, fetch>>

NextArchive ==
    \/ LoadArchive
    \/ Steps
    \/ WriteFails
    \/ DryRunReturn
    \/ ProjectInfo
    \/ ArchiveItem
    \/ ArchiveReturn

\* Whole runs of wrapped(): the reports are written and the items archived.
SpecArchive == Init /\ [][NextArchive]_vars

\* splitByWeeks applied to lists in any order.
NextSplit == LoadWindows \/ SplitCall \/ SplitLoop \/ SplitReturn

SpecSplit == Init /\ [][NextSplit]_vars

NextFetch == FetchBegin \/ FetchPage \/ FetchReturn

\* Runs of the fetch of the items.
SpecFetch == Init /\ [][NextFetch]_vars

(***************************************************************************)
(* Vocabulary of the properties.                                           *)
(***************************************************************************)
\* How often the item with this ID occurs in a list.
Count(l, id) == Cardinality({i \in 1..Len(l) : l[i].ID = id})

\* The IDs of a list, in order.
IDs(l) == [i \in 1..Len(l) |-> l[i].ID]

\* The windows (by index) that hold the item with this ID.
WindowsOf(id) == {w \in 1..Len(weeks) : Count(weeks[w].Items, id) > 0}

Week == DaysPerWeek * TicksPerDay

\* splitByWeeks has returned.
SplitDone == pc \in {"split_done", "rendered"}

\* The item of the input with this ID.
InputItem(id) == input[id]

(***************************************************************************)
(* C1.  No item appears in more than one window emitted by splitByWeeks    *)
(* (nor twice in one window); in particular an item completed at the       *)
(* boundary shared by two adjacent windows is in only one of them.         *)
(***************************************************************************)
C1_NoDuplicateAcrossWindows ==
    \A id \in 1..Len(input) :
        /\ Cardinality(WindowsOf(id)) <= 1
        /\ \A w \in 1..Len(weeks) : Count(weeks[w].Items, id) <= 1

\* Two adjacent windows have been emitted and an item completed exactly at
\* their shared boundary is in one of them.
C1_Witness ==
    /\ SplitDone
    /\ \E w \in 1..(Len(weeks) - 1) :
        \E i \in 1..Len(weeks[w].Items) :
            /\ Done(weeks[w].Items[i]) = weeks[w].Start
            /\ weeks[w].Start = weeks[w + 1].End

(***************************************************************************)
(* C2 (as claimed).  Every done item with a completion timestamp <= now    *)
(* (timestamps distinct, and set: not the zero time) appears in exactly    *)
(* one emitted window.  Stated for clocks in UTC, where getClosestSunday   *)
(* is the Sunday boundary at or before now.                                *)
(***************************************************************************)
DistinctDoneTimes ==
    \A i, j \in 1..Len(input) :
        (i # j /\ IsDone(input[i]) /\ IsDone(input[j])) => input[i].DoneAt # input[j].DoneAt

C2_CoverageUpToNow ==
    (SplitDone /\ DistinctDoneTimes /\ now.off = 0) =>
        \A id \in 1..Len(input) :
            (/\ IsDone(input[id])
             /\ input[id].DoneAt # ZeroTime
             /\ input[id].DoneAt <= now.utc) =>
                Cardinality(WindowsOf(id)) = 1

(***************************************************************************)
(* C2 (amended).  Every done item (timestamps distinct) whose completion   *)
(* timestamp is set and lies strictly before the first window's end        *)
(* E = getClosestSunday(now) appears in exactly one emitted window.        *)
(***************************************************************************)
C2_CoverageBeforeFirstEnd ==
    (SplitDone /\ DistinctDoneTimes) =>
        \A id \in 1..Len(input) :
            (/\ IsDone(input[id])
             /\ input[id].DoneAt # ZeroTime
             /\ input[id].DoneAt < getClosestSunday(now)) =>
                Cardinality(WindowsOf(id)) = 1

\* Items of two different weeks before E have each been put in a window, and
\* a done item completed between E and now is in none.
C2_Witness ==
    /\ SplitDone
    /\ DistinctDoneTimes
    /\ now.off = 0
    /\ Len(weeks) >= 2
    /\ weeks[1].Items # <<>>
    /\ weeks[2].Items # <<>>
    /\ \E id \in 1..Len(input) :
        /\ IsDone(input[id])
        /\ input[id].DoneAt >= getClosestSunday(now)
        /\ input[id].DoneAt <= now.utc
        /\ WindowsOf(id) = {}

(***************************************************************************)
(* C3.  Every item of an emitted window {Start, End} was completed at t    *)
(* with Start <= t < End, and a candidate completed exactly at a window's  *)
(* Start is in that window and not in the adjacent one that ends there.    *)
(***************************************************************************)
C3_HalfOpenWindows ==
    \A w \in 1..Len(weeks) :
        /\ \A i \in 1..Len(weeks[w].Items) :
            LET t == Done(weeks[w].Items[i])
            IN weeks[w].Start <= t /\ t < weeks[w].End
        /\ \A k \in 1..Len(arg) :
            (Done(arg[k]) # ZeroTime /\ Done(arg[k]) = weeks[w].Start) =>
                /\ Count(weeks[w].Items, arg[k].ID) = 1
                /\ \A v \in 1..Len(weeks) :
                    weeks[v].End = weeks[w].Start => Count(weeks[v].Items, arg[k].ID) = 0

\* An item completed at the Start of a window is in it, and the next window,
\* which ends at that instant, has been emitted too.
C3_Witness ==
    /\ SplitDone
    /\ \E w \in 1..(Len(weeks) - 1) :
        /\ weeks[w + 1].End = weeks[w].Start
        /\ \E i \in 1..Len(weeks[w].Items) : Done(weeks[w].Items[i]) = weeks[w].Start
        /\ weeks[w + 1].Items # <<>>

(***************************************************************************)
(* C4.  The windows are emitted most recent first, each spans exactly      *)
(* 7 days, and consecutive windows are contiguous:                         *)
(* weeks[i+1].End = weeks[i].Start.                                        *)
(***************************************************************************)
C4_ContiguousWeeks ==
    /\ \A w \in 1..Len(weeks) : weeks[w].End - weeks[w].Start = Week
    /\ \A w \in 1..(Len(weeks) - 1) :
        /\ weeks[w + 1].End = weeks[w].Start
        /\ weeks[w + 1].Start < weeks[w].Start

\* Three windows have been returned.
C4_Witness == SplitDone /\ Len(weeks) >= 3

(***************************************************************************)
(* C5.  The End of the first window, getClosestSunday(now), is the most    *)
(* recent Sunday 00:00 UTC at or before now, whatever the location of      *)
(* now: a Sunday at 00:00 UTC with End <= now and now - End < 7 days.      *)
(***************************************************************************)
\* splitByWeeks has computed its first bounds and emitted nothing yet.
FirstBounds == pc = "loop" /\ weeks = <<>>

C5_ClosestSundayAtOrBeforeNow ==
    FirstBounds =>
        /\ end % TicksPerDay = 0
        /\ WeekdayOfDay(end \div TicksPerDay) = 0
        /\ end <= now.utc
        /\ now.utc - end < Week

(***************************************************************************)
(* C6.  The loop of splitByWeeks terminates (once entered it is left), and *)
(* it stops exactly when the candidate pool is empty: it is left only with *)
(* an empty pool and it goes round only with a non-empty one.              *)
(***************************************************************************)
C6_LoopTerminates ==
    /\ (pc = "loop") ~> (pc = "split_done")
    /\ [](pc = "split_done" => Len(list) = 0)
    /\ [][(pc = "loop" /\ pc' = "loop") => Len(list) > 0]_vars

\* The loop has gone round three times and has been left.
C6_Witness == pc = "split_done" /\ Len(weeks) >= 3 /\ Len(list) = 0

(***************************************************************************)
(* C7.  Within every emitted window the items are in ascending order of    *)
(* completion timestamp, and items with identical timestamps keep their    *)
(* relative input order (an item's ID is its place in the input).          *)
(***************************************************************************)
C7_SortedStable ==
    \A w \in 1..Len(weeks) :
        \A i, j \in 1..Len(weeks[w].Items) :
            i < j =>
                LET a == weeks[w].Items[i]
                    b == weeks[w].Items[j]
                IN /\ Done(a) <= Done(b)
                   /\ Done(a) = Done(b) => a.ID < b.ID

\* A window holds two items completed at the same instant after an item that
\* came later in the input but was completed earlier.
C7_Witness ==
    /\ SplitDone
    /\ \E w \in 1..Len(weeks) :
        LET l == weeks[w].Items
        IN /\ Len(l) = 3
           /\ Done(l[1]) < Done(l[2])
           /\ Done(l[2]) = Done(l[3])
           /\ l[1].ID > l[2].ID

(***************************************************************************)
(* C8 (as claimed).  Items done on 2022-08-01, 2022-08-03 and 2022-07-20,  *)
(* windowed against now = 2022-08-07, give exactly two windows: the        *)
(* current week with the first two items and the previous week with the    *)
(* third.                                                                  *)
(***************************************************************************)
Scenario == input = ScenarioItems /\ now = ScenarioNow

C8_ScenarioTwoWindows ==
    (Scenario /\ SplitDone) =>
        /\ Len(weeks) = 2
        /\ IDs(weeks[1].Items) = <<1, 2>>
        /\ IDs(weeks[2].Items) = <<3>>

(***************************************************************************)
(* C8 (amended).  The scenario gives exactly three windows: the week from  *)
(* 2022-07-31 to 2022-08-07 with the first two items, the week from        *)
(* 2022-07-24 with no item, and the week from 2022-07-17 with the third.   *)
(***************************************************************************)
C8_ScenarioThreeWindows ==
    (Scenario /\ SplitDone) =>
        /\ Len(weeks) = 3
        /\ IDs(weeks[1].Items) = <<1, 2>>
        /\ weeks[1].Start = MidnightUTC(DayOf(2022, 7, 31))
        /\ weeks[1].End = MidnightUTC(DayOf(2022, 8, 7))
        /\ weeks[2].Items = <<>>
        /\ weeks[2].Start = MidnightUTC(DayOf(2022, 7, 24))
        /\ IDs(weeks[3].Items) = <<3>>
        /\ weeks[3].Start = MidnightUTC(DayOf(2022, 7, 17))

\* The scenario has been windowed.
C8_Witness == Scenario /\ pc = "split_done" /\ Len(weeks) > 0

(***************************************************************************)
(* C9.  Partition completeness: every Section.Extract call returns         *)
(* (mine, left) that together hold every item of its pool exactly once,    *)
(* and threading left through all sections as render() does gives section  *)
(* buckets and an unclassified bucket that together hold every item of     *)
(* the window exactly once.                                                *)
(***************************************************************************)
\* The sections of a report that took the item with this ID.
TakenBy(rep, id) == {k \in 1..Len(rep.Steps) : Count(rep.Steps[k].Mine, id) > 0}

C9_PartitionComplete ==
    \A r \in 1..Len(reports) :
        LET rep == reports[r]
            n   == Len(rep.Steps)
        IN /\ n = Len(cfg.Sections)
           /\ \A k \in 1..n :
               /\ rep.Steps[k].Pool = (IF k = 1 THEN weeks[r].Items ELSE rep.Steps[k - 1].Left)
               /\ \A id \in 1..Len(input) :
                   /\ Count(rep.Steps[k].Mine, id) + Count(rep.Steps[k].Left, id)
                        = Count(rep.Steps[k].Pool, id)
                   /\ Count(rep.Steps[k].Mine, id) <= 1
           /\ \A id \in 1..Len(input) :
               Cardinality(TakenBy(rep, id)) + Count(rep.Unclassified, id)
                    = Count(weeks[r].Items, id)

\* A window of two items has gone through two sections: the first took one
\* item and left the other, which the second took or left unclassified.
C9_Witness ==
    \E r \in 1..Len(reports) :
        LET rep == reports[r]
        IN /\ Len(rep.Steps) = 2
           /\ Len(weeks[r].Items) = 2
           /\ Len(rep.Steps[1].Mine) = 1
           /\ Len(rep.Steps[1].Left) = 1
           /\ Len(rep.Steps[2].Mine) + Len(rep.Unclassified) = 1

(***************************************************************************)
(* C10.  First match wins inside one section: an item of a section's pool  *)
(* that matches a label rule and also a prefix or branch rule of that      *)
(* section is in the matched list exactly once, among the items the label  *)
(* family took (which come first), and is not left in the pool.            *)
(***************************************************************************)
MatchesLabelRule(s, it) == \E i \in 1..Len(s.Match.Labels) : HasLabel(it, s.Match.Labels[i])

MatchesPrefixRule(s, it) == \E i \in 1..Len(s.Match.Prefixes) : HasPrefix(it, s.Match.Prefixes[i])

MatchesBranchRule(s, it) ==
    \E i \in 1..Len(s.Match.Branches) :
        IsBranch(it, s.Match.Branches[i].Org, s.Match.Branches[i].Repo,
                 s.Match.Branches[i].Branch)

\* An item that matches rules of two families of the section.
DoubleMatch(s, it) ==
    MatchesLabelRule(s, it) /\ (MatchesPrefixRule(s, it) \/ MatchesBranchRule(s, it))

C10_FirstMatchWins ==
    \A r \in 1..Len(reports) :
        \A k \in 1..Len(reports[r].Steps) :
            LET step   == reports[r].Steps[k]
                s      == cfg.Sections[k]
                nLabel == Cardinality({i \in 1..Len(step.Pool) : MatchesLabelRule(s, step.Pool[i])})
            IN \A i \in 1..Len(step.Pool) :
                DoubleMatch(s, step.Pool[i]) =>
                    /\ Count(step.Mine, step.Pool[i].ID) = 1
                    /\ \E j \in 1..nLabel :
                        j <= Len(step.Mine) /\ step.Mine[j].ID = step.Pool[i].ID
                    /\ Count(step.Left, step.Pool[i].ID) = 0

\* A section took two items: one that matches its label rule and its prefix
\* rule, and one that matches only its prefix rule and came first in the pool.
C10_Witness ==
    \E r \in 1..Len(reports) :
        \E k \in 1..Len(reports[r].Steps) :
            LET step == reports[r].Steps[k]
                s    == cfg.Sections[k]
            IN /\ Len(step.Pool) = 2
               /\ Len(step.Mine) = 2
               /\ ~MatchesLabelRule(s, step.Pool[1])
               /\ MatchesPrefixRule(s, step.Pool[1])
               /\ DoubleMatch(s, step.Pool[2])
               /\ step.Mine[1].ID = step.Pool[2].ID

(***************************************************************************)
(* C11.  Across sections the matching precedence is the order in which     *)
(* the sections are listed, never their render_order: an item of a window  *)
(* that matches one or more sections is assigned to the first listed       *)
(* section that matches it and to no other, also when a section listed     *)
(* later that matches it has a smaller render_order.                       *)
(***************************************************************************)
\* The item matches a rule of the section.
SectionMatches(s, it) ==
    MatchesLabelRule(s, it) \/ MatchesPrefixRule(s, it) \/ MatchesBranchRule(s, it)

\* The listed sections (by index) that match the item.
MatchingSections(it) == {k \in 1..Len(cfg.Sections) : SectionMatches(cfg.Sections[k], it)}

C11_ListingOrderPrecedence ==
    \A r \in 1..Len(reports) :
        \A i \in 1..Len(weeks[r].Items) :
            LET it == weeks[r].Items[i]
                M  == MatchingSections(it)
            IN M # {} =>
                TakenBy(reports[r], it.ID) = {CHOOSE k \in M : \A j \in M : k <= j}

\* An item matches the first and the second listed section, the second has
\* the smaller render_order, and the first took the item.
C11_Witness ==
    \E r \in 1..Len(reports) :
        \E i \in 1..Len(weeks[r].Items) :
            LET it == weeks[r].Items[i]
            IN /\ Len(cfg.Sections) = 2
               /\ MatchingSections(it) = {1, 2}
               /\ cfg.Sections[2].RenderOrder < cfg.Sections[1].RenderOrder
               /\ TakenBy(reports[r], it.ID) = {1}

(***************************************************************************)
(* Vocabulary of the matcher properties.                                   *)
(***************************************************************************)
\* What it means for a glob pattern to match a whole string: a "*" stands for
\* any run of characters (also none), every other character for itself.
RECURSIVE GlobMatches(_, _)
GlobMatches(p, str) ==
    IF p = <<>> THEN str = <<>>
    ELSE IF Head(p) = "*"
         THEN \E k \in 0..Len(str) : GlobMatches(Tail(p), SubSeq(str, k + 1, Len(str)))
         ELSE str # <<>> /\ Head(str) = Head(p) /\ GlobMatches(Tail(p), Tail(str))

\* A string without the spaces around it: the longest stretch that neither
\* begins nor ends with a space.
Trimmed(str) ==
    LET first == {i \in 1..Len(str) : str[i] # " "}
    IN IF first = {} THEN <<>>
       ELSE SubSeq(str, CHOOSE i \in first : \A j \in first : i <= j,
                        CHOOSE i \in first : \A j \in first : i >= j)

\* One of the item's labels, trimmed, is matched by one of the patterns, trimmed.
LabelFamilyMatches(patterns, it) ==
    \E i \in 1..Len(patterns) : \E j \in 1..Len(it.Labels) :
        GlobMatches(Trimmed(patterns[i]), Trimmed(it.Labels[j]))

\* The steps of the reports so far, each with the section it belongs to.
StepsDone ==
    {[step |-> reports[r].Steps[k], section |-> cfg.Sections[k]] :
        r \in 1..Len(reports), k \in 1..Len(cfg.Sections)}

\* A section with label rules only: what it takes is what ExtractByLabels
\* returns as matching, what it leaves is remaining.
LabelOnly(sec) ==
    sec.Match.Labels # <<>> /\ sec.Match.Prefixes = <<>> /\ sec.Match.Branches = <<>>

PrefixOnly(sec) ==
    sec.Match.Labels = <<>> /\ sec.Match.Prefixes # <<>> /\ sec.Match.Branches = <<>>

BranchOnly(sec) ==
    sec.Match.Labels = <<>> /\ sec.Match.Prefixes = <<>> /\ sec.Match.Branches # <<>>

(***************************************************************************)
(* C12 (as claimed).  A section whose label patterns are ["*"] matches     *)
(* every item whatever its labels: Extract returns every item of the pool  *)
(* as matched and leaves none.                                             *)
(***************************************************************************)
StarSection(sec) == sec.Match.Labels = <<Str_star>>

C12_StarMatchesEveryItem ==
    \A sd \in StepsDone :
        StarSection(sd.section) => (sd.step.Mine = sd.step.Pool /\ sd.step.Left = <<>>)

(***************************************************************************)
(* C12 (amended).  A section whose label patterns are ["*"] matches every  *)
(* item that carries at least one label, whatever the label's value:       *)
(* Extract returns exactly the labelled items of the pool as matched and   *)
(* leaves the items without a label.                                       *)
(***************************************************************************)
HasSomeLabel(it) == Len(it.Labels) > 0

HasNoLabel(it) == Len(it.Labels) = 0

C12_StarMatchesEveryLabelledItem ==
    \A sd \in StepsDone :
        (StarSection(sd.section) /\ LabelOnly(sd.section)) =>
            /\ sd.step.Mine = SelectSeq(sd.step.Pool, HasSomeLabel)
            /\ sd.step.Left = SelectSeq(sd.step.Pool, HasNoLabel)

\* A section with the label patterns ["*"] has taken a labelled item and left
\* an item that has no label.
C12_Witness ==
    \E sd \in StepsDone :
        /\ StarSection(sd.section) /\ LabelOnly(sd.section)
        /\ Len(sd.step.Pool) = 2
        /\ Len(sd.step.Mine) = 1
        /\ Len(sd.step.Left) = 1
        /\ sd.step.Left[1].Labels = <<>>

(***************************************************************************)
(* C13.  ExtractByLabels(patterns) puts an item in `matching` iff at least *)
(* one of the item's labels, trimmed of surrounding whitespace, is         *)
(* glob-matched by at least one trimmed pattern, and in `remaining`        *)
(* otherwise; so an item that carries no label is never matched by the     *)
(* label family, not even by the pattern "*", and stays in `remaining`.    *)
(***************************************************************************)
C13_LabelFamilyIffGlob ==
    \A sd \in StepsDone :
        LabelOnly(sd.section) =>
            LET pats      == sd.section.Match.Labels
                yes(it)   == LabelFamilyMatches(pats, it)
                no(it)    == ~LabelFamilyMatches(pats, it)
            IN /\ sd.step.Mine = SelectSeq(sd.step.Pool, yes)
               /\ sd.step.Left = SelectSeq(sd.step.Pool, no)
               /\ \A i \in 1..Len(sd.step.Pool) :
                    sd.step.Pool[i].Labels = <<>> =>
                        /\ Count(sd.step.Mine, sd.step.Pool[i].ID) = 0
                        /\ Count(sd.step.Left, sd.step.Pool[i].ID) = 1

\* A padded pattern has taken an item by a padded label and has left an item
\* that carries no label.
C13_Witness ==
    \E sd \in StepsDone :
        /\ LabelOnly(sd.section)
        /\ sd.section.Match.Labels[1] # Trimmed(sd.section.Match.Labels[1])
        /\ Len(sd.step.Mine) = 1
        /\ sd.step.Mine[1].Labels[1] # Trimmed(sd.step.Mine[1].Labels[1])
        /\ Len(sd.step.Left) = 1
        /\ sd.step.Left[1].Labels = <<>>

(***************************************************************************)
(* C14.  Label matching ignores case: a label pattern matches an item      *)
(* that has a label differing from it only in letter case (the pattern     *)
(* "deployment" matches the label "Deployment"), so a section with such a  *)
(* pattern takes the item.                                                 *)
(***************************************************************************)
\* A label of the item and a pattern are the same string up to letter case.
SameLabelIgnoringCase(patterns, it) ==
    \E i \in 1..Len(patterns) : \E j \in 1..Len(it.Labels) :
        ToLower(Trimmed(patterns[i])) = ToLower(Trimmed(it.Labels[j]))

C14_LabelsIgnoreCase ==
    \A sd \in StepsDone :
        LabelOnly(sd.section) =>
            \A i \in 1..Len(sd.step.Pool) :
                SameLabelIgnoringCase(sd.section.Match.Labels, sd.step.Pool[i]) =>
                    /\ Count(sd.step.Mine, sd.step.Pool[i].ID) = 1
                    /\ Count(sd.step.Left, sd.step.Pool[i].ID) = 0

(***************************************************************************)
(* C15.  A branch rule (org, repo, branch) matches an item iff the item's  *)
(* repository slug is non-empty, its branch is non-empty, the pattern      *)
(* "org/repo" glob-matches the slug and the branch pattern glob-matches    *)
(* the branch (patterns and values compared without the whitespace around  *)
(* them); a section of branch rules takes exactly the items one of its     *)
(* rules matches.  An item without a branch (an issue or a draft) never    *)
(* matches a branch rule, not even the rule ("*", "*", "*").               *)
(***************************************************************************)
BranchRuleMatches(b, it) ==
    /\ it.Repo.Slug # <<>>
    /\ it.Repo.Branch # <<>>
    /\ GlobMatches(Trimmed(b.Org) \o <<"/">> \o Trimmed(b.Repo), Trimmed(it.Repo.Slug))
    /\ GlobMatches(Trimmed(b.Branch), Trimmed(it.Repo.Branch))

C15_BranchRuleIff ==
    \A sd \in StepsDone :
        BranchOnly(sd.section) =>
            \A i \in 1..Len(sd.step.Pool) :
                LET it      == sd.step.Pool[i]
                    matched == \E k \in 1..Len(sd.section.Match.Branches) :
                                    BranchRuleMatches(sd.section.Match.Branches[k], it)
                IN /\ Count(sd.step.Mine, it.ID) = (IF matched THEN 1 ELSE 0)
                   /\ Count(sd.step.Left, it.ID) = (IF matched THEN 0 ELSE 1)
                   /\ it.Repo.Branch = <<>> => Count(sd.step.Mine, it.ID) = 0

\* The rule ("*", "*", "*") has taken a pull request and has left an issue:
\* an item that has a repository and no branch.
C15_Witness ==
    \E sd \in StepsDone :
        /\ sd.section.Match.Branches = <<AnyBranch>>
        /\ BranchOnly(sd.section)
        /\ Len(sd.step.Mine) = 1
        /\ sd.step.Mine[1].Repo.Branch # <<>>
        /\ Len(sd.step.Left) = 1
        /\ sd.step.Left[1].Repo.Slug # <<>>
        /\ sd.step.Left[1].Repo.Branch = <<>>

(***************************************************************************)
(* C16.  A prefix rule matches an item iff the item's title, trimmed on    *)
(* both sides, begins with the trimmed pattern interpreted as a glob, the  *)
(* title of an item whose Title field is absent or not text-typed being    *)
(* the empty string; a section of prefix rules takes exactly the items one *)
(* of its patterns matches.  "Up*" and "Update Something" both match the   *)
(* title "Update Something".                                               *)
(***************************************************************************)
\* The title a rule sees: the text of a text-typed Title field, else empty.
TitleSeen(it) ==
    IF "Title" \notin DOMAIN it.Fields THEN <<>>
    ELSE IF it.Fields["Title"].Type # FIELD_TEXT THEN <<>>
    ELSE it.Fields["Title"].Text

\* The string begins with something the glob pattern matches.
BeginsWithGlob(str, p) == \E k \in 0..Len(str) : GlobMatches(p, SubSeq(str, 1, k))

PrefixFamilyMatches(patterns, it) ==
    \E i \in 1..Len(patterns) : BeginsWithGlob(Trimmed(TitleSeen(it)), Trimmed(patterns[i]))

C16_PrefixRuleIff ==
    \A sd \in StepsDone :
        PrefixOnly(sd.section) =>
            LET pats    == sd.section.Match.Prefixes
                yes(it) == PrefixFamilyMatches(pats, it)
                no(it)  == ~PrefixFamilyMatches(pats, it)
            IN /\ sd.step.Mine = SelectSeq(sd.step.Pool, yes)
               /\ sd.step.Left = SelectSeq(sd.step.Pool, no)
               /\ pats \in {<<Str_Up_star>>, <<Str_UpdateSomething>>} =>
                    \A i \in 1..Len(sd.step.Pool) :
                        (/\ "Title" \in DOMAIN sd.step.Pool[i].Fields
                         /\ sd.step.Pool[i].Fields["Title"] = TextField(Str_UpdateSomething)) =>
                            Count(sd.step.Mine, sd.step.Pool[i].ID) = 1

\* The pattern "Up*" has taken an item titled "Update Something" and has left
\* an item whose Title field holds the same text but is not text-typed.
C16_Witness ==
    \E sd \in StepsDone :
        /\ sd.section.Match.Prefixes = <<Str_Up_star>>
        /\ PrefixOnly(sd.section)
        /\ Len(sd.step.Mine) = 1
        /\ sd.step.Mine[1].Fields["Title"] = TextField(Str_UpdateSomething)
        /\ Len(sd.step.Left) = 1
        /\ "Title" \in DOMAIN sd.step.Left[1].Fields
        /\ sd.step.Left[1].Fields["Title"].Type # FIELD_TEXT
        /\ sd.step.Left[1].Fields["Title"].Text = Str_UpdateSomething

(***************************************************************************)
(* C17.  GetUniqLabels(items) maps every raw (untrimmed, case-preserved)   *)
(* label string to the total number of its occurrences over the label      *)
(* lists of the items and has no other key (labels {a, b}, {b}, {} give    *)
(* {a: 1, b: 2}); render() computes it over all items of the window,       *)
(* however the sections classified them.                                   *)
(***************************************************************************)
\* The places (item, position) at which the label occurs in the list.
Occurrences(l, label) ==
    UNION {{<<i, j>> : j \in {k \in 1..Len(l[i].Labels) : l[i].Labels[k] = label}} :
            i \in 1..Len(l)}

LabelsOf(l) == UNION {{l[i].Labels[j] : j \in 1..Len(l[i].Labels)} : i \in 1..Len(l)}

C17_LabelCounts ==
    \A r \in 1..Len(reports) :
        cfg.LabelSection.Enabled =>
            LET counts == reports[r].Labels
                items  == weeks[r].Items
            IN /\ DOMAIN counts = LabelsOf(items)
               /\ \A label \in LabelsOf(items) :
                    counts[label] = Cardinality(Occurrences(items, label))
               /\ (Len(items) = 3 /\ items[1].Labels = <<Str_a, Str_b>>
                   /\ items[2].Labels = <<Str_b>> /\ items[3].Labels = <<>>) =>
                        /\ DOMAIN counts = {Str_a, Str_b}
                        /\ counts[Str_a] = 1
                        /\ counts[Str_b] = 2

\* The labels of a window have been counted of which a section took an item
\* and left another: a label occurs three times, twice on one item, and the
\* padded and the capital spelling of it are keys of their own.
C17_Witness ==
    \E r \in 1..Len(reports) :
        /\ cfg.LabelSection.Enabled
        /\ Len(reports[r].Steps) = 1
        /\ reports[r].Steps[1].Mine # <<>>
        /\ reports[r].Unclassified # <<>>
        /\ Str_a \in DOMAIN reports[r].Labels
        /\ reports[r].Labels[Str_a] = 3
        /\ Str_a_padded \in DOMAIN reports[r].Labels
        /\ Str_A \in DOMAIN reports[r].Labels

(***************************************************************************)
(* C18.  An item is done iff it has a field named Status that is           *)
(* text-typed and whose text equals "done" ignoring case; GetDone returns  *)
(* exactly the done items of its input, each once, and no others.          *)
(***************************************************************************)
\* The text is d-o-n-e, each letter in either case.
SpellsDone(text) ==
    /\ Len(text) = 4
    /\ text[1] \in {"d", "D"}
    /\ text[2] \in {"o", "O"}
    /\ text[3] \in {"n", "N"}
    /\ text[4] \in {"e", "E"}

StatusSaysDone(it) ==
    /\ "Status" \in DOMAIN it.Fields
    /\ it.Fields["Status"].Type = FIELD_TEXT
    /\ SpellsDone(it.Fields["Status"].Text)

\* GetDone has returned and splitByWeeks has not been entered yet.
GetDoneReturned == pc = "filtered"

C18_GetDoneExactlyDone ==
    GetDoneReturned =>
        /\ \A id \in 1..Len(input) :
            Count(arg, id) = (IF StatusSaysDone(input[id]) THEN 1 ELSE 0)
        /\ \A k \in 1..Len(arg) : arg[k] = input[arg[k].ID]

\* GetDone has returned one item, spelled "DONE", of three: one of the others
\* holds "done" in a Status field that is not text-typed, one has no Status.
C18_Witness ==
    /\ GetDoneReturned
    /\ Len(input) = 3
    /\ Len(arg) = 1
    /\ arg[1].Fields["Status"].Text = Str_DONE
    /\ \E i \in 1..3 : "Status" \notin DOMAIN input[i].Fields
    /\ \E i \in 1..3 :
        /\ "Status" \in DOMAIN input[i].Fields
        /\ input[i].Fields["Status"].Type # FIELD_TEXT
        /\ input[i].Fields["Status"].Text = Str_done

(***************************************************************************)
(* C19.  An item that is not done (its completion time Done() is the zero  *)
(* time) is excluded from every time-based query: whatever the arguments,  *)
(* GetOlder(when) and GetInRange(start, end) never return it, and          *)
(* splitByWeeks never places it in a window.                               *)
(***************************************************************************)
C19_NotDoneExcluded ==
    /\ \A k \in 1..Len(query.items) : IsDone(query.items[k])
    /\ \A w \in 1..Len(weeks) :
        \A k \in 1..Len(weeks[w].Items) : IsDone(weeks[w].Items[k])

(***************************************************************************)
(* C20.  An invalid pattern in a branch rule of any section is a fatal     *)
(* configuration error that is detected before any item is classified and  *)
(* before any report is written: with such a configuration no section has  *)
(* taken an item when the run fails, and no report is ever rendered.       *)
(***************************************************************************)
\* A branch rule of the configuration holds a pattern that does not compile.
InvalidBranchPattern ==
    \E k \in 1..Len(cfg.Sections) :
        \E i \in 1..Len(cfg.Sections[k].Match.Branches) :
            ~RegexpCompiles(TrimSpace(cfg.Sections[k].Match.Branches[i].Branch))

C20_InvalidPatternFailsFast ==
    InvalidBranchPattern =>
        /\ reports = <<>>
        /\ failure.panicked => failure.classified = <<>>

(***************************************************************************)
(* C21.  Without --dry-run the items archived are exactly the items of the *)
(* emitted windows: every archive request is for an item of some window,   *)
(* and a run that ends without error has made one request for every item   *)
(* of every window.  With --dry-run no archive request is made.            *)
(***************************************************************************)
\* How often the ID occurs among the archive requests.
TimesSent(id) == Cardinality({i \in 1..Len(sent) : sent[i].ID = id})

C21_ArchivedExactlyWindowItems ==
    /\ cli.DryRun => sent = <<>>
    /\ \A i \in 1..Len(sent) : WindowsOf(sent[i].ID) # {}
    /\ (pc = "done" /\ ~cli.DryRun) =>
          \A w \in 1..Len(weeks) : \A k \in 1..Len(weeks[w].Items) :
              TimesSent(weeks[w].Items[k].ID) = 1

\* A run without --dry-run has ended: it archived two items of different
\* windows.
C21_Witness ==
    /\ pc = "done"
    /\ ~cli.DryRun
    /\ Len(sent) = 2
    /\ WindowsOf(sent[1].ID) # WindowsOf(sent[2].ID)

(***************************************************************************)
(* C22.  splitByWeeks leaves the list its caller passed as it was: after   *)
(* the call the caller's list holds the same items in the same order as    *)
(* before it, for every order of the items in the list.                    *)
(***************************************************************************)
C22_CallerListUnchanged ==
    [][(pc = "start" /\ pc' = "loop") => arg' = input]_vars

(***************************************************************************)
(* C23 (as claimed).  Every item that left the candidate pool in a loop    *)
(* iteration of splitByWeeks is in the window emitted by that iteration or *)
(* by an earlier one (stated for clocks in UTC).                           *)
(***************************************************************************)
\* The item is in a window emitted so far.
Windowed(it) == WindowsOf(it.ID) # {}

C23_RemovedWereWindowed ==
    now.off = 0 => \A i \in 1..Len(removed) : Windowed(removed[i])

(***************************************************************************)
(* C23 (amended).  Every item that left the candidate pool in a loop       *)
(* iteration of splitByWeeks is in the window emitted by that iteration or *)
(* by an earlier one, unless it was completed exactly at the initial end E *)
(* (the end of the first window): such an item is in the pool, leaves it   *)
(* in the first iteration and is in no window.                             *)
(***************************************************************************)
C23_RemovedWereWindowedOrAtFirstEnd ==
    \A i \in 1..Len(removed) :
        \/ Windowed(removed[i])
        \/ /\ Len(weeks) = 1
           /\ Equal(Done(removed[i]), weeks[1].End)

\* The second iteration has removed an item the first window holds (it was
\* completed at that window's start) and an item of its own window; the first
\* iteration removed an item completed at E, which is in no window.
C23_Witness ==
    /\ pc = "loop"
    /\ Len(weeks) = 2
    /\ \E i, j \in 1..Len(removed) :
        /\ WindowsOf(removed[i].ID) = {1}
        /\ WindowsOf(removed[j].ID) = {2}
    /\ \E k \in 1..Len(arg) :
        /\ IsDone(arg[k])
        /\ Equal(Done(arg[k]), weeks[1].End)
        /\ ~Windowed(arg[k])

(***************************************************************************)
(* C24.  With E the initial end and the candidate pool the done items of   *)
(* the list whose completion timestamp is set and <= E: if the pool is     *)
(* empty splitByWeeks emits no window; otherwise, with m the oldest        *)
(* timestamp of the pool, it emits exactly floor((E - m) / 7 days) + 1     *)
(* windows, the consecutive weeks [E - 7k days, E - 7(k-1) days) for       *)
(* k = 1, 2, ..., whether or not a week holds an item.                     *)
(***************************************************************************)
\* The initial end.
FirstEnd == getClosestSunday(now)

\* The completion timestamps of the candidate pool.
PoolTimes ==
    {arg[i].DoneAt : i \in {j \in 1..Len(arg) :
        /\ IsDone(arg[j])
        /\ arg[j].DoneAt # ZeroTime
        /\ arg[j].DoneAt <= FirstEnd}}

\* The oldest timestamp of the candidate pool.
OldestTime == CHOOSE m \in PoolTimes : \A t \in PoolTimes : m <= t

C24_WindowCount ==
    SplitDone =>
        IF PoolTimes = {} THEN weeks = <<>>
        ELSE /\ Len(weeks) = ((FirstEnd - OldestTime) \div Week) + 1
             /\ \A k \in 1..Len(weeks) :
                    /\ weeks[k].End = FirstEnd - (k - 1) * Week
                    /\ weeks[k].Start = FirstEnd - k * Week

\* Three windows for a pool whose oldest item was completed exactly two weeks
\* before E: the first window holds no item, the second holds the oldest
\* item (at its start) and the third, emitted for it, holds none; the list
\* also holds a done item without completion timestamp.
C24_Witness ==
    /\ SplitDone
    /\ PoolTimes # {}
    /\ OldestTime = FirstEnd - 2 * Week
    /\ Len(weeks) = 3
    /\ weeks[1].Items = <<>>
    /\ weeks[2].Items # <<>>
    /\ weeks[3].Items = <<>>
    /\ \E i \in 1..Len(arg) : IsDone(arg[i]) /\ arg[i].DoneAt = ZeroTime

(***************************************************************************)
(* C25 (as claimed).  Whenever splitByWeeks emits at least one window, the *)
(* oldest (last emitted) window holds at least one item (stated for clocks *)
(* in UTC).                                                                *)
(***************************************************************************)
LastWindow == weeks[Len(weeks)]

C25_OldestWindowNotEmpty ==
    (now.off = 0 /\ SplitDone /\ weeks # <<>>) => LastWindow.Items # <<>>

(***************************************************************************)
(* C25 (amended).  Whenever splitByWeeks emits at least one window, the    *)
(* oldest (last emitted) window holds at least one item, unless the oldest *)
(* candidate item was completed exactly at that window's end (a window     *)
(* boundary E - 7k days, k >= 0): then the loop emits one more window,     *)
(* older than the one that holds the oldest candidate item, and it is      *)
(* empty.                                                                  *)
(***************************************************************************)
C25_OldestWindowNotEmptyUnlessBoundary ==
    (SplitDone /\ weeks # <<>>) =>
        \/ LastWindow.Items # <<>>
        \/ OldestTime = LastWindow.End

\* Two windows were emitted for a pool whose oldest item was completed a day
\* after a window boundary: the last window holds it.  (The other case, a
\* last window that is empty, is C24's witness.)
C25_Witness ==
    /\ SplitDone
    /\ Len(weeks) = 2
    /\ PoolTimes # {}
    /\ OldestTime > LastWindow.Start
    /\ \E i \in 1..Len(LastWindow.Items) : LastWindow.Items[i].DoneAt = OldestTime

(***************************************************************************)
(* C26.  Whatever the render_order values of the sections, the             *)
(* unclassified section, the label section and the summary: every item of  *)
(* a window is listed exactly once in the text render() returns for the    *)
(* window, in a user section or in the unclassified section.               *)
(***************************************************************************)
\* How often the texts of a report list the item with this ID.
TimesListed(rep, id) ==
    Cardinality(UNION {{<<t, k>> : k \in {j \in 1..Len(rep.Text[t].Items) :
                                              rep.Text[t].Items[j].ID = id}} :
                       t \in 1..Len(rep.Text)})

C26_EachItemListedOnce ==
    \A w \in 1..Len(reports) :
        \A k \in 1..Len(weeks[w].Items) :
            TimesListed(reports[w], weeks[w].Items[k].ID) = 1

(***************************************************************************)
(* C27.  In a run no archive request is made before the report of every    *)
(* emitted window has been written: a run in which writing a report failed *)
(* archives nothing.  archive() stops at the first request that fails: the *)
(* requests made are for the first items in window order, then item order, *)
(* without a gap, every request before the last one succeeded, and a       *)
(* failed request ends the run with no request after it.                   *)
(***************************************************************************)
\* The places of the items in the windows: <<window, index>>.
Places ==
    UNION {{<<w, k>> : k \in 1..Len(weeks[w].Items)} : w \in 1..Len(weeks)}

\* Window order, then item order.
Precedes(p, q) == p[1] < q[1] \/ (p[1] = q[1] /\ p[2] < q[2])

C27_ArchiveAfterReportsUntilFailure ==
    /\ sent # <<>> => Len(reports) = Len(weeks)
    /\ err = "write" => sent = <<>>
    /\ \A i \in 1..Len(sent) :
        /\ \E p \in Places :
            /\ weeks[p[1]].Items[p[2]].ID = sent[i].ID
            /\ Cardinality({q \in Places : Precedes(q, p)}) = i - 1
        /\ i < Len(sent) => sent[i].ok
        /\ ~sent[i].ok => pc = "failed" /\ err = "archive"

\* The reports of three windows were written, the second of them empty; the
\* request for the item of the first window succeeded and the request for the
\* first of the two items of the third window failed: the run has ended and
\* the last item was not requested.
C27_Witness ==
    /\ pc = "failed"
    /\ err = "archive"
    /\ Len(reports) = 3
    /\ Len(weeks[1].Items) = 1
    /\ Len(weeks[2].Items) = 0
    /\ Len(weeks[3].Items) = 2
    /\ Len(sent) = 2
    /\ sent[1].ok
    /\ ~sent[2].ok
    /\ sent[1].ID = weeks[1].Items[1].ID
    /\ sent[2].ID = weeks[3].Items[1].ID

(***************************************************************************)
(* C28.  An item whose Status is done but whose DoneAt is the zero time is *)
(* never a candidate of splitByWeeks, whatever the clock, and so is in no  *)
(* window, is listed in no report and is never the subject of an archive   *)
(* request.                                                                *)
(***************************************************************************)
\* The item of the fetched list is done without a completion time.
DoneWithoutTime(it) == IsDone(it) /\ it.DoneAt = ZeroTime

\* A report lists the item with this ID.
Reported(id) == \E w \in 1..Len(reports) : TimesListed(reports[w], id) > 0

C28_DoneWithoutTimeLeftOut ==
    \A i \in 1..Len(input) :
        DoneWithoutTime(input[i]) =>
            /\ Count(list, input[i].ID) = 0
            /\ WindowsOf(input[i].ID) = {}
            /\ ~Reported(input[i].ID)
            /\ TimesSent(input[i].ID) = 0

\* A run without --dry-run has ended: of a done item without completion time
\* and a done item with one, only the second was reported and archived.
C28_Witness ==
    /\ pc = "done"
    /\ ~cli.DryRun
    /\ \E i, j \in 1..Len(input) :
        /\ DoneWithoutTime(input[i])
        /\ IsDone(input[j])
        /\ Reported(input[j].ID)
        /\ TimesSent(input[j].ID) = 1
        /\ ~Reported(input[i].ID)
        /\ TimesSent(input[i].ID) = 0

(***************************************************************************)
(* C29.  fetchIssues asks for the pages one after another: its first       *)
(* request has no cursor, every later one carries the endCursor of the     *)
(* page before it, and it asks again only after a page that has a next     *)
(* page.  When it returns without error the last page it got has no next   *)
(* page and its result is the items of the pages it got, concatenated in   *)
(* page order.  When a request fails it returns nil and the error, and     *)
(* wrapped() gets no item, whatever the pages before held.                 *)
(***************************************************************************)
\* The items of the first n answers, normalized, in page order.
RECURSIVE ItemsOfPages(_)
ItemsOfPages(n) ==
    IF n = 0 THEN <<>>
    ELSE ItemsOfPages(n - 1) \o [k \in 1..Len(server[n].Nodes) |-> ToClean(server[n].Nodes[k])]

C29_PagesInOrderOrError ==
    /\ \A n \in 1..Len(fetch.requests) :
        /\ n = 1 => fetch.requests[n] = Nil
        /\ n > 1 =>
            /\ Respond(server, n - 1).ok
            /\ Respond(server, n - 1).HasNextPage
            /\ fetch.requests[n] = Ptr(Respond(server, n - 1).EndCursor)
        /\ ~Respond(server, n).ok => fetch.failed
    /\ (fetch.returned /\ ~fetch.failed) =>
        /\ fetch.requests # <<>>
        /\ ~Respond(server, Len(fetch.requests)).HasNextPage
        /\ fetch.result = ItemsOfPages(Len(fetch.requests))
        /\ input = fetch.result
        /\ err = ""
    /\ fetch.failed =>
        /\ fetch.returned
        /\ ~Respond(server, Len(fetch.requests)).ok
        /\ fetch.result = Nil
        /\ input = <<>>
        /\ err = "fetch"

\* The third request failed after two pages with items had been fetched:
\* fetchIssues returned nil and the error.
C29_Witness ==
    /\ fetch.failed
    /\ Len(fetch.requests) = 3
    /\ fetch.requests[2] # fetch.requests[3]
    /\ Len(server[1].Nodes) > 0
    /\ Len(server[2].Nodes) > 0
    /\ Len(fetch.items) = Len(server[1].Nodes) + Len(server[2].Nodes)
    /\ fetch.result = Nil

(***************************************************************************)
(* C30.  ToClean gives a pull request the completion time mergedAt when    *)
(* it has one and closedAt otherwise, and an issue the completion time     *)
(* closedAt; an item with none of these keeps the zero time and gets no    *)
(* item type, number or repository.                                        *)
(***************************************************************************)
\* The raw items of the first n answers, in page order.
RECURSIVE NodesOfPages(_)
NodesOfPages(n) == IF n = 0 THEN <<>> ELSE NodesOfPages(n - 1) \o server[n].Nodes

\* The number of requests that were answered with a page.
PagesGot == IF fetch.failed THEN Len(fetch.requests) - 1 ELSE Len(fetch.requests)

\* The content of the raw item is a pull request, an issue.
IsPullRequest(g) == g.PR.Number # 0
IsIssue(g) == g.Issue.Number # 0

\* The raw item carries no close or merge time.
HasNoTimestamp(g) == g.Issue.ClosedAt = Nil /\ g.PR.MergedAt = Nil /\ g.PR.ClosedAt = Nil

C30_DoneAtFromMergeOrClose ==
    LET raw == NodesOfPages(PagesGot)
    IN /\ Len(fetch.items) = Len(raw)
       /\ \A k \in 1..Len(raw) :
            LET g == raw[k]
                c == fetch.items[k]
            IN /\ c.ID = g.ID
               /\ (IsPullRequest(g) /\ g.PR.MergedAt # Nil) => c.DoneAt = g.PR.MergedAt[1]
               /\ (IsPullRequest(g) /\ g.PR.MergedAt = Nil /\ g.PR.ClosedAt # Nil) =>
                      c.DoneAt = g.PR.ClosedAt[1]
               /\ (IsIssue(g) /\ g.Issue.ClosedAt # Nil) => c.DoneAt = g.Issue.ClosedAt[1]
               /\ HasNoTimestamp(g) =>
                      /\ c.DoneAt = ZeroTime
                      /\ c.ItemType = ""
                      /\ c.Number = 0
                      /\ c.Repo = [Name |-> "", Slug |-> <<>>, URL |-> "", Branch |-> <<>>]

\* fetchIssues has returned a pull request that was merged and closed later,
\* with the merge time, a pull request closed without a merge, with the close
\* time, and an open issue, whose number and repository the server did give,
\* without time, type, number and repository.
C30_Witness ==
    /\ fetch.returned
    /\ ~fetch.failed
    /\ \E i, j, k \in 1..Len(fetch.result) :
        LET raw == NodesOfPages(PagesGot)
        IN /\ raw[i].PR.MergedAt = Ptr(MergedTime)
           /\ raw[i].PR.ClosedAt = Ptr(ClosedLater)
           /\ fetch.result[i].DoneAt = MergedTime
           /\ raw[j].PR.MergedAt = Nil
           /\ fetch.result[j].DoneAt = ClosedLater
           /\ IsIssue(raw[k])
           /\ raw[k].Issue.ClosedAt = Nil
           /\ fetch.result[k].Number = 0
           /\ fetch.result[k].DoneAt = ZeroTime

====
